---------------------------- MODULE Spec2Model ----------------------------
(***************************************************************************)
(* Model of the kyua test-case executors.                                  *)
(*                                                                         *)
(* Three executors of the repository and the reconciler of results are     *)
(* modelled as state machines that share the same variables; Init picks    *)
(* which one runs:                                                         *)
(*                                                                         *)
(*   engine = "runner"     runner::run_test_case / run_test_case_safe and   *)
(*                         the file-local fork_and_wait (engine/runner.cpp) *)
(*   engine = "protected"  engine::protected_run and engine::fork_and_wait  *)
(*                         (engine/isolation.ipp), the interrupt shield     *)
(*   engine = "scheduler"  scheduler_handle::spawn_test, wait_any and       *)
(*                         spawn_cleanup, and result_handle::cleanup        *)
(*                         (engine/scheduler.cpp)                           *)
(*   engine = "reconciler" one call of results::adjust on a raw result, a   *)
(*                         termination status and the timed-out flag       *)
(*                         (engine/results.cpp)                            *)
(*   engine = "loader"     one call of results::load, and of results::parse *)
(*                         on the text of the results file                 *)
(*                         (engine/results.cpp)                            *)
(*   engine = "gate"       one call of check_requirements                  *)
(*                         (engine/atf_iface/test_case.cpp)                *)
(*   engine = "plain"      the result of a plain test program              *)
(*                         (engine/plain_test.cpp)                         *)
(*   engine = "ids"        test_case_id::operator< (engine/test_case.cpp)  *)
(*   engine = "properties" test_case::from_properties and parse_ulong      *)
(*                         (engine/atf_iface/test_case.cpp)                *)
(*   engine = "lister"     the list of test cases of a test program        *)
(*                         (engine/scheduler.cpp, engine/runner.cpp)       *)
(*   engine = "table"      several tests on one scheduler handle and its   *)
(*                         table all_exec_data (engine/scheduler.cpp)      *)
(*                                                                         *)
(* The children and the signals are the environment: a child may start a   *)
(* subprocess in its process group, may terminate with a status, and one   *)
(* of SIGHUP, SIGINT, SIGTERM may be delivered whenever its handler is     *)
(* programmed.  A signal may interrupt the wait(timeout) of                *)
(* engine::fork_and_wait; the wait that reaps the child it has just killed *)
(* is taken to return at once.                                             *)
(***************************************************************************)
EXTENDS Naturals, Sequences, FiniteSets, TLC

VARIABLES
    engine,        \* which executor this behaviour runs
    pc,            \* position of the executor in its code
    has_cleanup,   \* test_case.has_cleanup
    skip_reason,   \* what check_requirements returns ("" when the test may run)
    timeout,       \* the timeout of the test case, in seconds
    workdir,       \* "none" | "exists" | "removed": the work directory on disk
    child,         \* [Phases -> "unborn" | "running" | "zombie" | "reaped"]
    sub,           \* [Phases -> "none" | "running" | "killed"]: a subprocess in the child's group
    term,          \* [Phases -> how the child terminated, "alive" before that]
    outcome,       \* [Phases -> what fork_and_wait returned, "unset" before that]
    handlers,      \* [Signals -> "original" | "interrupt_handler"]
    interrupted,   \* the signal recorded by interrupt_handler, "none" when none fired
    result,        \* the test result held by the executor, NoResult when none
    raised,        \* the error handed to the caller, "none" when none
    pending,       \* the error being unwound inside the executor, "none" when none
    hist,          \* history of the run, read only by the properties
    adjust_call,   \* the call of results::adjust under way: arguments and return value
    parse_call,    \* the call of results::load under way: the file and the return value
    call           \* the call of any other function under way: arguments and return value;
                   \* for the table, the members of the scheduler handle

vars == << engine, pc, has_cleanup, skip_reason, timeout, workdir, child, sub, term,
           outcome, handlers, interrupted, result, raised, pending, hist,
           adjust_call, parse_call, call >>

-----------------------------------------------------------------------------
(* Bounds and value sets                                                   *)

\* Number of interrupt signals a behaviour may deliver.
MaxSignals == 2

Phases == {"body", "cleanup"}

Signals == {"SIGHUP", "SIGINT", "SIGTERM"}

\* exit_skipped: the exit code of a child that found a requirement unmet.
exit_skipped == 84

\* The status of a child that left through ::_exit(exit_skipped).
ExitSkipped == "exited(" \o ToString(exit_skipped) \o ")"

\* How a child can terminate by itself or by a signal of its own.
Statuses == {"exited(0)", "exited(1)", "signaled", ExitSkipped}

NoResult == [type |-> "null", reason |-> ""]

passed == [type |-> "passed", reason |-> ""]

failed(r) == [type |-> "failed", reason |-> r]

skipped(r) == [type |-> "skipped", reason |-> r]

broken(r) == [type |-> "broken", reason |-> r]

expected_failure(r) == [type |-> "expected_failure", reason |-> r]

\* The results a test case can be given once its result file and its
\* termination have been reconciled.
AdjustedResults ==
    { passed, failed("Oh no"), skipped("Foo"), broken("Bar"),
      expected_failure("known bug") }

ResultTypes == {"passed", "failed", "skipped", "broken", "expected_failure"}

\* A good() that counts a skip as a problem.
good_mutant(r) == r.type \in {"passed", "expected_failure"}

\* results::*::good / test_result::good
good(r) == r.type \in {"passed", "skipped", "expected_failure"}

\* No call of results::adjust is under way.
NoCall ==
    [file |-> "none", raw_result |-> NoResult, status |-> [kind |-> "none"],
     timed_out |-> FALSE, returned |-> NoResult, externalized |-> NoResult]

\* No other function is being called.
Idle == [fn |-> "none"]

\* No call of results::load is under way.
NoLoad ==
    [file |-> [path |-> "", exists |-> FALSE, content |-> << >>],
     returned |-> NoResult]

\* default_timeout: the timeout of a test case that declares none.
default_timeout == 300

\* The timeout a test case declares in the tests of the runner.
declared_timeout == 1

\* scheduler::cleanup_timeout
cleanup_timeout == 60

\* The timeouts a test case may come with.
Timeouts == { declared_timeout, default_timeout }

InitHist ==
    [ sigs        |-> 0,        \* signals delivered so far
      sig_pc      |-> "none",   \* where the executor was when the first one arrived
      sig_phase   |-> "none",   \* which children existed when the first one arrived
      eintr       |-> [p \in Phases |-> FALSE], \* the wait for the child failed with EINTR
      rm_failed   |-> FALSE,    \* a removal of the work directory failed
      rm_error    |-> "",       \* what() of that failure
      hook_result |-> NoResult, \* the result before the work directory was removed
      error_at    |-> "none",   \* the operation that raised an error
      expired     |-> [p \in Phases |-> FALSE], \* the deadline expired on a live child
      sigkill     |-> [p \in Phases |-> {}],    \* who was sent SIGKILL
      deadline    |-> [p \in Phases |-> 0],     \* the time its child was given, in seconds
      events      |-> << >> ]   \* the events of the test case, in the order they happened


-----------------------------------------------------------------------------
(* Children: utils::process::child_with_files                              *)

\* Some process of the phase's process group is still running.
GroupRunning(p) == child[p] = "running" \/ sub[p] = "running"

\* killpg(pid, SIGKILL) on what is left of the group of a terminated child.
killpg_sub(s) == IF s = "running" THEN "killed" ELSE s

\* child_with_files::fork succeeded: the child runs as the leader of a new
\* process group.
forked(p) ==
    /\ child' = [child EXCEPT ![p] = "running"]
    /\ UNCHANGED << sub, term, outcome >>

\* child_with_files::wait on a child that has terminated: it is reaped, what
\* is left of its process group is killed, and its status is returned.
wait_status(p) ==
    /\ child[p] = "zombie"
    /\ child' = [child EXCEPT ![p] = "reaped"]
    /\ sub' = [sub EXCEPT ![p] = killpg_sub(@)]
    /\ UNCHANGED term

\* child_with_files::wait(timeout) on a child that is still running when the
\* deadline expires: the process group is killed, the child is reaped and
\* timeout_error is raised.
wait_timeout(p) ==
    /\ child[p] = "running"
    /\ child' = [child EXCEPT ![p] = "reaped"]
    /\ sub' = [sub EXCEPT ![p] = killpg_sub(@)]
    /\ term' = [term EXCEPT ![p] = "killed"]

\* The value fork_and_wait returns when wait(timeout) returned a status.
fork_and_wait_status(st) == st

\* A fork_and_wait that reports an expired deadline as a clean exit.
fork_and_wait_timeout_mutant == "exited(0)"

\* The value fork_and_wait returns when wait(timeout) raised timeout_error.
fork_and_wait_timeout == "none"

\* Who has been sent SIGKILL once wait has killed the group of phase p.
SigkillAfterWait(p, timed_out) ==
    hist.sigkill[p] \cup (IF sub[p] = "running" THEN {"sub"} ELSE {})
                    \cup (IF timed_out THEN {"child"} ELSE {})

\* A running child starts a subprocess, which stays in its process group.
ChildSpawnsSub ==
    /\ \E p \in Phases :
        /\ child[p] = "running"
        /\ sub[p] = "none"
        /\ sub' = [sub EXCEPT ![p] = "running"]
    /\ UNCHANGED << engine, pc, has_cleanup, skip_reason, timeout, workdir, child, term,
                    outcome, handlers, interrupted, result, raised, pending,
                    hist, adjust_call, parse_call, call >>

\* A running child terminates by itself.
ChildTerminates ==
    /\ \E p \in Phases, st \in Statuses :
        /\ child[p] = "running"
        /\ child' = [child EXCEPT ![p] = "zombie"]
        /\ term' = [term EXCEPT ![p] = st]
    /\ UNCHANGED << engine, pc, has_cleanup, skip_reason, timeout, workdir, sub,
                    outcome, handlers, interrupted, result, raised, pending,
                    hist, adjust_call, parse_call, call >>

Event(e) == [hist EXCEPT !.events = Append(@, e)]

\* The child of phase p has been forked and given d seconds to run.
Spawned(p, d) == [Event(p \o "_spawned") EXCEPT !.deadline[p] = d]

-----------------------------------------------------------------------------
(* engine/runner.cpp: runner::run_test_case and run_test_case_safe          *)

Runner == engine = "runner"

\* A run_test_case_safe that gives the cleanup a time of its own.
runner_deadline_mutant(p) == IF p = "body" THEN timeout ELSE cleanup_timeout

\* run_test_case_safe: the timeout handed to fork_and_wait for phase p.
runner_deadline(p) == timeout

\* Variables no step of run_test_case ever touches.
RunnerFrame ==
    UNCHANGED << engine, has_cleanup, skip_reason, timeout, handlers, interrupted, raised,
                 adjust_call, parse_call, call >>

\* A run_test_case whose catch clause builds no result.
run_test_case_catch_mutant(what) == NoResult

\* The catch clause of run_test_case: any std::exception becomes a result.
run_test_case_catch(what) ==
    broken("The test caused an error in the runtime system: " \o what)

\* An operation of run_test_case_safe throws: the stack unwinds towards the
\* catch clause of run_test_case.
RunnerThrow(what, at) ==
    /\ pc' = "unwind"
    /\ pending' = what
    /\ hist' = [hist EXCEPT !.error_at = at]
    /\ UNCHANGED << workdir, child, sub, term, outcome, result >>
    /\ RunnerFrame

\* check_requirements: a test case whose requirements are not met is skipped
\* without being run.
R_CheckRequirements ==
    /\ Runner /\ pc = "check_requirements"
    /\ IF skip_reason # ""
       THEN /\ result' = skipped(skip_reason)
            /\ pc' = "returned"
            /\ hist' = Event("result_returned")
       ELSE /\ pc' = "create_work_directory"
            /\ UNCHANGED << result, hist >>
    /\ UNCHANGED << workdir, child, sub, term, outcome, pending >>
    /\ RunnerFrame

\* fs::auto_directory workdir(create_work_directory())
R_CreateWorkDirectory ==
    /\ Runner /\ pc = "create_work_directory"
    /\ \/ /\ workdir' = "exists"
          /\ pc' = "mkdir_rundir"
          /\ UNCHANGED << child, sub, term, outcome, result, pending, hist >>
          /\ RunnerFrame
       \/ RunnerThrow("mkdtemp failed", "create_work_directory")

\* fs::mkdir(rundir, 0755)
R_MkdirRundir ==
    /\ Runner /\ pc = "mkdir_rundir"
    /\ \/ /\ pc' = "fork_body"
          /\ UNCHANGED << workdir, child, sub, term, outcome, result, pending, hist >>
          /\ RunnerFrame
       \/ RunnerThrow("mkdir failed", "mkdir_rundir")

\* fork_and_wait, first half: child_with_files::fork
R_Fork(p) ==
    /\ Runner /\ pc = "fork_" \o p
    /\ \/ /\ forked(p)
          /\ pc' = "wait_" \o p
          /\ hist' = Spawned(p, runner_deadline(p))
          /\ UNCHANGED << workdir, result, pending >>
          /\ RunnerFrame
       \/ RunnerThrow("fork failed", "fork_" \o p)

\* A run_test_case_safe that runs the cleanup whatever has_cleanup says.
RunnerAfterWait_mutant(p) ==
    IF p = "body" THEN "fork_cleanup" ELSE "adjust"

\* Where run_test_case_safe goes on once fork_and_wait has returned.
RunnerAfterWait(p) ==
    IF p = "body" /\ has_cleanup THEN "fork_cleanup" ELSE "adjust"

\* fork_and_wait, second half: child->wait(timeout) returns the status of the
\* child, or raises timeout_error, which fork_and_wait turns into none.
R_Wait(p) ==
    /\ Runner /\ pc = "wait_" \o p
    /\ \/ /\ wait_status(p)
          /\ outcome' = [outcome EXCEPT ![p] = fork_and_wait_status(term[p])]
          /\ hist' = [Event(p \o "_reaped") EXCEPT
                          !.sigkill[p] = SigkillAfterWait(p, FALSE)]
       \/ /\ wait_timeout(p)
          /\ outcome' = [outcome EXCEPT ![p] = fork_and_wait_timeout]
          /\ hist' = [Event(p \o "_reaped") EXCEPT
                          !.sigkill[p] = SigkillAfterWait(p, TRUE),
                          !.expired[p] = TRUE]
    /\ pc' = RunnerAfterWait(p)
    /\ UNCHANGED << workdir, result, pending >>
    /\ RunnerFrame

R_ForkBody == R_Fork("body")

R_WaitBody == R_Wait("body")

R_ForkCleanup == R_Fork("cleanup")

R_WaitCleanup == R_Wait("cleanup")

\* results::adjust(test_case, body_status, cleanup_status, results::load(...))
R_Adjust ==
    /\ Runner /\ pc = "adjust"
    /\ \E r \in AdjustedResults :
        /\ result' = r
        /\ hist' = [hist EXCEPT !.hook_result = r]
    /\ pc' = "workdir_cleanup"
    /\ UNCHANGED << workdir, child, sub, term, outcome, pending >>
    /\ RunnerFrame

\* workdir.cleanup(); return result;
R_WorkdirCleanup ==
    /\ Runner /\ pc = "workdir_cleanup"
    /\ \/ /\ workdir' = "removed"
          /\ pc' = "returned"
          /\ hist' = [hist EXCEPT !.events = @ \o << "workdir_removed", "result_returned" >>]
          /\ UNCHANGED << child, sub, term, outcome, result, pending >>
          /\ RunnerFrame
       \/ /\ pc' = "unwind"
          /\ pending' = "rmdir failed"
          /\ hist' = [hist EXCEPT !.error_at = "workdir_cleanup",
                                  !.rm_failed = TRUE, !.rm_error = "rmdir failed"]
          /\ UNCHANGED << workdir, child, sub, term, outcome, result >>
          /\ RunnerFrame

\* ~auto_directory during unwinding: removes the directory if it is still
\* there and swallows a failure to do so.
auto_directory_destructor(wd, ok) ==
    IF wd = "exists" /\ ok THEN "removed" ELSE wd

\* The exception reaches run_test_case: the work directory object is
\* destroyed on the way and the catch clause builds the result.
R_Unwind ==
    /\ Runner /\ pc = "unwind"
    /\ \E ok \in BOOLEAN :
        /\ hist.rm_failed => ~ok
        /\ workdir' = auto_directory_destructor(workdir, ok)
        /\ hist' = [hist EXCEPT
                        !.rm_failed = @ \/ (workdir = "exists" /\ ~ok),
                        !.events = @ \o (IF workdir' = "removed" /\ workdir = "exists"
                                         THEN << "workdir_removed" >> ELSE << >>)
                                     \o << "result_returned" >>]
    /\ result' = run_test_case_catch(pending)
    /\ pending' = "none"
    /\ pc' = "returned"
    /\ UNCHANGED << child, sub, term, outcome >>
    /\ RunnerFrame

NextRunner ==
    \/ R_CheckRequirements
    \/ R_CreateWorkDirectory
    \/ R_MkdirRundir
    \/ R_ForkBody
    \/ R_WaitBody
    \/ R_ForkCleanup
    \/ R_WaitCleanup
    \/ R_Adjust
    \/ R_WorkdirCleanup
    \/ R_Unwind

InitRunner ==
    /\ engine = "runner"
    /\ pc = "check_requirements"
    /\ has_cleanup \in BOOLEAN
    /\ skip_reason \in {"", "Requires root privileges"}
    /\ timeout \in Timeouts
    /\ workdir = "none"
    /\ child = [p \in Phases |-> "unborn"]
    /\ sub = [p \in Phases |-> "none"]
    /\ term = [p \in Phases |-> "alive"]
    /\ outcome = [p \in Phases |-> "unset"]
    /\ handlers = [s \in Signals |-> "original"]
    /\ interrupted = "none"
    /\ result = NoResult
    /\ raised = "none"
    /\ pending = "none"
    /\ hist = InitHist
    /\ adjust_call = NoCall
    /\ parse_call = NoLoad
    /\ call = Idle

-----------------------------------------------------------------------------
(* engine/isolation.ipp: engine::protected_run and engine::fork_and_wait    *)

Protected == engine = "protected"

\* Variables no step of protected_run ever touches.
ProtectedFrame == UNCHANGED << engine, has_cleanup, skip_reason, timeout, adjust_call, parse_call, call >>

\* The three programmer objects of protected_run, in declaration order.
ProgramOrder == << "SIGHUP", "SIGINT", "SIGTERM" >>

AllProgrammed == \A s \in Signals : handlers[s] = "interrupt_handler"

AllOriginal == \A s \in Signals : handlers[s] = "original"

\* check_interrupt(): raises interrupted_error when a signal has been recorded.
check_interrupt == interrupted # "none"

\* utils::signals::programmer sigX(SIGX, detail::interrupt_handler), one
\* constructor per step.
P_Program ==
    /\ Protected
    /\ \E i \in 1..3 :
        /\ pc = "program_" \o ProgramOrder[i]
        /\ handlers' = [handlers EXCEPT ![ProgramOrder[i]] = "interrupt_handler"]
        /\ pc' = IF i < 3 THEN "program_" \o ProgramOrder[i + 1]
                 ELSE "create_work_directory"
    /\ UNCHANGED << workdir, child, sub, term, outcome, interrupted, result,
                    raised, pending, hist >>
    /\ ProtectedFrame

\* A protected_run that lets every error out as an interruption.
ProtectedThrow_mutant(what, at) ==
    /\ pc' = "unwind"
    /\ pending' = "interrupted"
    /\ hist' = [hist EXCEPT !.error_at = at]
    /\ UNCHANGED << workdir, child, sub, term, outcome, handlers, interrupted,
                    result, raised >>
    /\ ProtectedFrame

\* An error other than interrupted_error leaves protected_run: no catch
\* clause takes it, only the destructors run.
ProtectedThrow(what, at) ==
    /\ pc' = "unwind"
    /\ pending' = what
    /\ hist' = [hist EXCEPT !.error_at = at]
    /\ UNCHANGED << workdir, child, sub, term, outcome, handlers, interrupted,
                    result, raised >>
    /\ ProtectedFrame

\* interrupted_error is raised inside the try block: control moves to the
\* catch clause of protected_run.
ProtectedInterrupt ==
    /\ pc' = "catch_cleanup"
    /\ pending' = "interrupted"
    /\ UNCHANGED << workdir, child, sub, term, outcome, handlers, interrupted,
                    result, raised, hist >>
    /\ ProtectedFrame

\* A step of the try block that changes nothing but the position.
ProtectedGoto(l) ==
    /\ pc' = l
    /\ UNCHANGED << workdir, child, sub, term, outcome, handlers, interrupted,
                    result, raised, pending, hist >>
    /\ ProtectedFrame

\* utils::fs::auto_directory workdir(create_work_directory()), before the try.
P_CreateWorkDirectory ==
    /\ Protected /\ pc = "create_work_directory"
    /\ \/ /\ workdir' = "exists"
          /\ pc' = "check_interrupt_start"
          /\ UNCHANGED << child, sub, term, outcome, handlers, interrupted,
                          result, raised, pending, hist >>
          /\ ProtectedFrame
       \/ ProtectedThrow("mkdtemp failed", "create_work_directory")

\* The checkpoints: check_interrupt() at the start of the try block, and in
\* the hook after the wait for the body and after the wait for the cleanup.
Checkpoints == {"check_interrupt_start", "check_interrupt_body", "check_interrupt_cleanup"}

AfterCheckpoint(l) ==
    CASE l = "check_interrupt_start" -> "fork_body"
      [] l = "check_interrupt_body" -> IF has_cleanup THEN "fork_cleanup" ELSE "adjust"
      [] l = "check_interrupt_cleanup" -> "adjust"

P_CheckInterrupt ==
    /\ Protected /\ pc \in Checkpoints
    /\ IF check_interrupt
       THEN ProtectedInterrupt
       ELSE ProtectedGoto(AfterCheckpoint(pc))

\* engine::fork_and_wait, child_with_files::fork
P_Fork(p) ==
    /\ Protected /\ pc = "fork_" \o p
    /\ \/ /\ forked(p)
          /\ pc' = "wait_" \o p
          /\ hist' = Event(p \o "_spawned")
          /\ UNCHANGED << workdir, handlers, interrupted, result, raised, pending >>
          /\ ProtectedFrame
       \/ ProtectedThrow("fork failed", "fork_" \o p)

\* engine::fork_and_wait, child->wait(timeout) returning a status or raising
\* timeout_error.
P_Wait(p) ==
    /\ Protected /\ pc = "wait_" \o p
    /\ \/ /\ wait_status(p)
          /\ outcome' = [outcome EXCEPT ![p] = fork_and_wait_status(term[p])]
          /\ hist' = [Event(p \o "_reaped") EXCEPT
                          !.sigkill[p] = SigkillAfterWait(p, FALSE)]
       \/ /\ wait_timeout(p)
          /\ outcome' = [outcome EXCEPT ![p] = fork_and_wait_timeout]
          /\ hist' = [Event(p \o "_reaped") EXCEPT
                          !.sigkill[p] = SigkillAfterWait(p, TRUE),
                          !.expired[p] = TRUE]
    /\ pc' = "check_interrupt_" \o p
    /\ UNCHANGED << workdir, handlers, interrupted, result, raised, pending >>
    /\ ProtectedFrame

\* engine::fork_and_wait, the EINTR branch: ::kill(child->pid(), SIGKILL)
P_EintrKill(p) ==
    /\ Protected /\ pc = "eintr_kill_" \o p
    /\ child' = [child EXCEPT ![p] = IF @ = "running" THEN "zombie" ELSE @]
    /\ term' = [term EXCEPT ![p] = IF child[p] = "running" THEN "killed" ELSE @]
    /\ hist' = [hist EXCEPT !.sigkill[p] = @ \cup {"child"}]
    /\ pc' = "eintr_wait_" \o p
    /\ UNCHANGED << workdir, sub, outcome, handlers, interrupted, result,
                    raised, pending >>
    /\ ProtectedFrame

\* A fork_and_wait whose EINTR branch does not wait for the killed child.
P_EintrWait_mutant(p) ==
    /\ Protected /\ pc = "eintr_wait_" \o p
    /\ pc' = "eintr_check_" \o p
    /\ UNCHANGED << workdir, child, sub, term, outcome, handlers, interrupted,
                    result, raised, pending, hist >>
    /\ ProtectedFrame

\* engine::fork_and_wait, the EINTR branch: (void)child->wait()
P_EintrWait(p) ==
    /\ Protected /\ pc = "eintr_wait_" \o p
    /\ wait_status(p)
    /\ hist' = [Event(p \o "_reaped") EXCEPT
                    !.sigkill[p] = SigkillAfterWait(p, FALSE)]
    /\ pc' = "eintr_check_" \o p
    /\ UNCHANGED << workdir, outcome, handlers, interrupted, result, raised,
                    pending >>
    /\ ProtectedFrame

\* engine::fork_and_wait, the EINTR branch: check_interrupt(), which cannot
\* return inside protected_run.
P_EintrCheck(p) ==
    /\ Protected /\ pc = "eintr_check_" \o p
    /\ check_interrupt
    /\ ProtectedInterrupt

P_ForkBody == P_Fork("body")

P_WaitBody == P_Wait("body")

P_ForkCleanup == P_Fork("cleanup")

P_WaitCleanup == P_Wait("cleanup")

P_Eintr ==
    \E p \in Phases : P_EintrKill(p) \/ P_EintrWait(p) \/ P_EintrCheck(p)

\* The hook loads the result file and reconciles it with the statuses.
P_Adjust ==
    /\ Protected /\ pc = "adjust"
    /\ \E r \in AdjustedResults :
        /\ result' = r
        /\ hist' = [hist EXCEPT !.hook_result = r]
    /\ pc' = "workdir_cleanup"
    /\ UNCHANGED << workdir, child, sub, term, outcome, handlers, interrupted,
                    raised, pending >>
    /\ ProtectedFrame

\* A protected_run that ignores a failure to remove the work directory.
cleanup_failure_result_mutant(r, what) == r

\* The catch (fs::error) clause around workdir.cleanup() in the try block.
cleanup_failure_result(r, what) ==
    IF good(r)
    THEN broken("Could not clean up test work directory: " \o what)
    ELSE r

\* try { workdir.cleanup(); } catch (const utils::fs::error& e) { ... }
P_WorkdirCleanup ==
    /\ Protected /\ pc = "workdir_cleanup"
    /\ \/ /\ workdir' = "removed"
          /\ hist' = Event("workdir_removed")
          /\ UNCHANGED result
       \/ /\ result' = cleanup_failure_result(result, "rmdir failed")
          /\ hist' = [hist EXCEPT !.rm_failed = TRUE, !.rm_error = "rmdir failed"]
          /\ UNCHANGED workdir
    /\ pc' = "unprogram_SIGHUP"
    /\ UNCHANGED << child, sub, term, outcome, handlers, interrupted, raised,
                    pending >>
    /\ ProtectedFrame

\* A catch clause that does not remove the work directory.
P_CatchCleanup_mutant ==
    /\ Protected /\ pc = "catch_cleanup"
    /\ pc' = "catch_unprogram_SIGHUP"
    /\ UNCHANGED << workdir, child, sub, term, outcome, handlers, interrupted,
                    result, raised, pending, hist >>
    /\ ProtectedFrame

\* catch (const engine::interrupted_error& e) { workdir.cleanup(); ...
P_CatchCleanup ==
    /\ Protected /\ pc = "catch_cleanup"
    /\ \/ /\ workdir' = "removed"
          /\ hist' = Event("workdir_removed")
          /\ pc' = "catch_unprogram_SIGHUP"
          /\ UNCHANGED pending
       \/ /\ pending' = "rmdir failed"
          /\ hist' = [hist EXCEPT !.rm_failed = TRUE, !.rm_error = "rmdir failed",
                                  !.error_at = "catch_cleanup"]
          /\ pc' = "unwind"
          /\ UNCHANGED workdir
    /\ UNCHANGED << child, sub, term, outcome, handlers, interrupted, result,
                    raised >>
    /\ ProtectedFrame

\* A protected_run whose unprogram calls leave the handlers in place.
P_Unprogram_mutant ==
    /\ Protected
    /\ \E i \in 1..3, c \in {"", "catch_"} :
        /\ pc = c \o "unprogram_" \o ProgramOrder[i]
        /\ pc' = IF i < 3 THEN c \o "unprogram_" \o ProgramOrder[i + 1]
                 ELSE IF c = "" THEN "check_interrupt_final" ELSE "catch_throw"
    /\ UNCHANGED << workdir, child, sub, term, outcome, handlers, interrupted,
                    result, raised, pending, hist >>
    /\ ProtectedFrame

\* sighup.unprogram(); sigint.unprogram(); sigterm.unprogram(); once after
\* the try block and once in the catch clause.
P_Unprogram ==
    /\ Protected
    /\ \E i \in 1..3, c \in {"", "catch_"} :
        /\ pc = c \o "unprogram_" \o ProgramOrder[i]
        /\ handlers' = [handlers EXCEPT ![ProgramOrder[i]] = "original"]
        /\ pc' = IF i < 3 THEN c \o "unprogram_" \o ProgramOrder[i + 1]
                 ELSE IF c = "" THEN "check_interrupt_final" ELSE "catch_throw"
    /\ UNCHANGED << workdir, child, sub, term, outcome, interrupted, result,
                    raised, pending, hist >>
    /\ ProtectedFrame

\* check_interrupt(); return result;   at the end of protected_run
P_FinalCheck ==
    /\ Protected /\ pc = "check_interrupt_final"
    /\ IF check_interrupt
       THEN /\ raised' = "interrupted"
            /\ pc' = "raised"
            /\ hist' = Event("error_raised")
       ELSE /\ raised' = "none"
            /\ pc' = "returned"
            /\ hist' = Event("result_returned")
    /\ UNCHANGED << workdir, child, sub, term, outcome, handlers, interrupted,
                    result, pending >>
    /\ ProtectedFrame

\* throw e;   at the end of the catch clause
P_CatchThrow ==
    /\ Protected /\ pc = "catch_throw"
    /\ raised' = pending
    /\ pending' = "none"
    /\ pc' = "raised"
    /\ hist' = Event("error_raised")
    /\ UNCHANGED << workdir, child, sub, term, outcome, handlers, interrupted,
                    result >>
    /\ ProtectedFrame

\* ~programmer of sigterm, sigint and sighup: each puts the disposition it
\* replaced back in place.
programmer_destructors(h) == [s \in Signals |-> "original"]

\* An error leaves protected_run: ~auto_directory removes the directory if it
\* can, the three ~programmer restore the dispositions, and the error
\* reaches the caller.
P_Unwind ==
    /\ Protected /\ pc = "unwind"
    /\ \E ok \in BOOLEAN :
        /\ hist.rm_failed => ~ok
        /\ workdir' = auto_directory_destructor(workdir, ok)
        /\ hist' = [hist EXCEPT
                        !.rm_failed = @ \/ (workdir = "exists" /\ ~ok),
                        !.events = @ \o (IF workdir' = "removed" /\ workdir = "exists"
                                         THEN << "workdir_removed" >> ELSE << >>)
                                     \o << "error_raised" >>]
    /\ handlers' = programmer_destructors(handlers)
    /\ raised' = pending
    /\ pending' = "none"
    /\ pc' = "raised"
    /\ UNCHANGED << child, sub, term, outcome, interrupted, result >>
    /\ ProtectedFrame

\* Which children of the test case exist at the moment a signal arrives.
SignalPhase ==
    IF child["body"] = "unborn" THEN "before_body"
    ELSE IF child["cleanup"] = "unborn" THEN "before_cleanup"
    ELSE "after_cleanup_spawn"

\* detail::interrupt_handler runs: one of the programmed signals is
\* delivered.  A signal that finds protected_run blocked in wait(timeout) may
\* make the wait fail with EINTR.
Signal ==
    /\ engine \in {"protected", "scheduler"}
    /\ pc \notin {"returned", "raised", "handed"}
    /\ hist.sigs < MaxSignals
    /\ \E s \in Signals :
        /\ handlers[s] = "interrupt_handler"
        /\ interrupted' = s
    /\ \/ /\ UNCHANGED pc
          /\ hist' = [hist EXCEPT !.sigs = @ + 1,
                                  !.sig_pc = IF @ = "none" THEN pc ELSE @,
                                  !.sig_phase = IF @ = "none" THEN SignalPhase ELSE @]
       \/ /\ Protected
          /\ \E p \in Phases :
              /\ pc = "wait_" \o p
              /\ pc' = "eintr_kill_" \o p
              /\ hist' = [hist EXCEPT !.sigs = @ + 1,
                                      !.sig_pc = IF @ = "none" THEN pc ELSE @,
                                      !.sig_phase = IF @ = "none" THEN SignalPhase ELSE @,
                                      !.eintr[p] = TRUE]
    /\ UNCHANGED << workdir, child, sub, term, outcome, handlers, result,
                    raised, pending >>
    /\ ProtectedFrame

NextProtected ==
    \/ P_Program
    \/ P_CreateWorkDirectory
    \/ P_CheckInterrupt
    \/ P_ForkBody
    \/ P_WaitBody
    \/ P_ForkCleanup
    \/ P_WaitCleanup
    \/ P_Eintr
    \/ P_Adjust
    \/ P_WorkdirCleanup
    \/ P_CatchCleanup
    \/ P_Unprogram
    \/ P_FinalCheck
    \/ P_CatchThrow
    \/ P_Unwind

InitProtected ==
    /\ engine = "protected"
    /\ pc = "program_SIGHUP"
    /\ has_cleanup \in BOOLEAN
    /\ skip_reason = ""
    /\ timeout = default_timeout
    /\ workdir = "none"
    /\ child = [p \in Phases |-> "unborn"]
    /\ sub = [p \in Phases |-> "none"]
    /\ term = [p \in Phases |-> "alive"]
    /\ outcome = [p \in Phases |-> "unset"]
    /\ handlers = [s \in Signals |-> "original"]
    /\ interrupted = "none"
    /\ result = broken("Test result not yet initialized")
    /\ raised = "none"
    /\ pending = "none"
    /\ hist = InitHist
    /\ adjust_call = NoCall
    /\ parse_call = NoLoad
    /\ call = Idle

-----------------------------------------------------------------------------
(* engine/scheduler.cpp: scheduler_handle, one test case in flight          *)

Scheduler == engine = "scheduler"

\* spawn_test hands the timeout of the test case to generic.spawn;
\* spawn_cleanup hands cleanup_timeout to generic.spawn_followup.
scheduler_deadline(p) == IF p = "body" THEN timeout ELSE cleanup_timeout

\* Variables no step of the scheduler ever touches: the signal handlers
\* belong to the generic executor for the whole life of the scheduler.
SchedulerFrame ==
    UNCHANGED << engine, has_cleanup, skip_reason, timeout, handlers, interrupted, pending,
                 adjust_call, parse_call, call >>

\* _pimpl->generic.check_interrupt() finds a recorded signal: the operation
\* ends with interrupted_error in the hands of the caller.
SchedulerInterrupt ==
    /\ raised' = "interrupted"
    /\ pc' = "raised"
    /\ hist' = Event("error_raised")
    /\ UNCHANGED << workdir, child, sub, term, outcome, result >>
    /\ SchedulerFrame

SchedulerGoto(l) ==
    /\ pc' = l
    /\ UNCHANGED << workdir, child, sub, term, outcome, result, raised, hist >>
    /\ SchedulerFrame

\* The first statement of spawn_test, spawn_cleanup and wait_any.
SchedulerChecks == {"spawn_test", "spawn_cleanup", "wait_any"}

AfterSchedulerCheck(l) ==
    CASE l = "spawn_test" -> "generic_spawn"
      [] l = "spawn_cleanup" -> "generic_spawn_followup"
      [] l = "wait_any" -> "generic_wait_any"

\* A scheduler whose operations never look at the recorded signal.
S_CheckInterrupt_mutant ==
    /\ Scheduler /\ pc \in SchedulerChecks
    /\ SchedulerGoto(AfterSchedulerCheck(pc))

S_CheckInterrupt ==
    /\ Scheduler /\ pc \in SchedulerChecks
    /\ IF check_interrupt
       THEN SchedulerInterrupt
       ELSE SchedulerGoto(AfterSchedulerCheck(pc))

\* run_test_program::operator() in a child whose do_requirements_check
\* finds a requirement unmet: the child writes the skip reason to the
\* skipped cookie and leaves through ::_exit(exit_skipped) before
\* exec_test is reached; it has terminated when the scheduler next waits.
do_requirements_check ==
    /\ child' = [child EXCEPT !["body"] = "zombie"]
    /\ term' = [term EXCEPT !["body"] = ExitSkipped]
    /\ UNCHANGED << sub, outcome >>

\* The skipped cookie is in the control directory of the body.
SkippedCookie == skip_reason # ""

\* A wait_any that trusts the exit code alone.
compute_body_result_mutant(st) ==
    IF st = ExitSkipped
    THEN { skipped(skip_reason) }
    ELSE AdjustedResults

\* wait_any, the branch taken when data->body_result is not set: the
\* results the body may be given once it terminated with status st.
compute_body_result(st) ==
    IF st = ExitSkipped /\ SkippedCookie
    THEN { skipped(skip_reason) }
    ELSE AdjustedResults

\* spawn_test: _pimpl->generic.spawn(run_test_program(...), timeout, ...)
\* creates the work directory of the test and forks its body.
S_SpawnTest ==
    /\ Scheduler /\ pc = "generic_spawn"
    /\ \/ /\ workdir' = "exists"
          /\ IF skip_reason = "" THEN forked("body") ELSE do_requirements_check
          /\ pc' = "wait_any"
          /\ raised' = raised
          /\ hist' = Spawned("body", scheduler_deadline("body"))
       \/ /\ raised' = "fork failed"
          /\ pc' = "raised"
          /\ hist' = [Event("error_raised") EXCEPT !.error_at = "fork_body"]
          /\ UNCHANGED << workdir, child, sub, term, outcome >>
    /\ UNCHANGED result
    /\ SchedulerFrame

\* spawn_cleanup: _pimpl->generic.spawn_followup(run_test_cleanup(...),
\* body_handle, cleanup_timeout) forks the cleanup in the work directory of
\* the body.
S_SpawnCleanup ==
    /\ Scheduler /\ pc = "generic_spawn_followup"
    /\ \/ /\ forked("cleanup")
          /\ pc' = "wait_any"
          /\ raised' = raised
          /\ hist' = Spawned("cleanup", scheduler_deadline("cleanup"))
          /\ UNCHANGED workdir
       \/ /\ raised' = "fork failed"
          /\ pc' = "raised"
          /\ hist' = [Event("error_raised") EXCEPT !.error_at = "fork_cleanup"]
          /\ UNCHANGED << workdir, child, sub, term, outcome >>
    /\ UNCHANGED result
    /\ SchedulerFrame

\* The phase whose child the scheduler is waiting for.
InFlight == IF child["cleanup"] = "unborn" THEN "body" ELSE "cleanup"

\* A wait_any that never looks at how the cleanup terminated.
cleanup_result_ignored(body_result, st) == body_result

\* A wait_any that lets the cleanup override whatever the body reported.
cleanup_result_mutant(body_result, st) ==
    IF st = "none"
    THEN broken("Test case cleanup timed out")
    ELSE IF st # "exited(0)"
         THEN broken("Test case cleanup did not terminate successfully")
         ELSE body_result

\* wait_any, the branch taken when data->body_result is set: the result of
\* the test once its cleanup has terminated with status st ("none" when the
\* cleanup timed out).
cleanup_result(body_result, st) ==
    IF good(body_result)
    THEN IF st = "none"
         THEN broken("Test case cleanup timed out")
         ELSE IF st # "exited(0)"
              THEN broken("Test case cleanup did not terminate successfully")
              ELSE body_result
    ELSE body_result

\* wait_any after its check: _pimpl->generic.wait_any() reaps the child in
\* flight; the body's result is computed, or the cleanup's status is
\* reconciled with the result of the body.
S_WaitAny ==
    /\ Scheduler /\ pc = "generic_wait_any"
    /\ LET p == InFlight IN
        /\ \/ /\ wait_status(p)
              /\ outcome' = [outcome EXCEPT ![p] = fork_and_wait_status(term[p])]
           \/ /\ wait_timeout(p)
              /\ outcome' = [outcome EXCEPT ![p] = fork_and_wait_timeout]
        /\ IF p = "body"
           THEN /\ result' \in compute_body_result(outcome'[p])
                /\ pc' = IF has_cleanup THEN "spawn_cleanup" ELSE "return_handle"
           ELSE /\ result' = cleanup_result(result, outcome'[p])
                /\ pc' = "return_handle"
        /\ hist' = [Event(p \o "_reaped") EXCEPT
                        !.sigkill[p] = SigkillAfterWait(p, outcome'[p] = "none"),
                        !.expired[p] = (outcome'[p] = "none"),
                        !.hook_result = IF p = "body" THEN result' ELSE @]
    /\ UNCHANGED << workdir, raised >>
    /\ SchedulerFrame

\* wait_any returns the result handle: the caller has the result.
S_ReturnHandle ==
    /\ Scheduler /\ pc = "return_handle"
    /\ pc' = "handed"
    /\ hist' = Event("result_returned")
    /\ UNCHANGED << workdir, child, sub, term, outcome, result, raised >>
    /\ SchedulerFrame

\* result_handle::cleanup(), called by whoever received the handle:
\* _pbimpl->generic.cleanup() removes the work directory or raises.
S_HandleCleanup ==
    /\ Scheduler /\ pc = "handed"
    /\ \/ /\ workdir' = "removed"
          /\ pc' = "returned"
          /\ hist' = Event("workdir_removed")
          /\ UNCHANGED raised
       \/ /\ raised' = "rmdir failed"
          /\ pc' = "raised"
          /\ hist' = [Event("error_raised") EXCEPT
                          !.rm_failed = TRUE, !.rm_error = "rmdir failed",
                          !.error_at = "handle_cleanup"]
          /\ UNCHANGED workdir
    /\ UNCHANGED << child, sub, term, outcome, result >>
    /\ SchedulerFrame

NextScheduler ==
    \/ S_CheckInterrupt
    \/ S_SpawnTest
    \/ S_SpawnCleanup
    \/ S_WaitAny
    \/ S_ReturnHandle
    \/ S_HandleCleanup

InitScheduler ==
    /\ engine = "scheduler"
    /\ pc = "spawn_test"
    /\ has_cleanup \in BOOLEAN
    /\ skip_reason \in {"", "Requires root privileges"}
    /\ timeout \in Timeouts
    /\ workdir = "none"
    /\ child = [p \in Phases |-> "unborn"]
    /\ sub = [p \in Phases |-> "none"]
    /\ term = [p \in Phases |-> "alive"]
    /\ outcome = [p \in Phases |-> "unset"]
    /\ handlers = [s \in Signals |-> "interrupt_handler"]
    /\ interrupted = "none"
    /\ result = NoResult
    /\ raised = "none"
    /\ pending = "none"
    /\ hist = InitHist
    /\ adjust_call = NoCall
    /\ parse_call = NoLoad
    /\ call = Idle

-----------------------------------------------------------------------------
(* engine/results.cpp: results::adjust                                      *)

Reconciler == engine = "reconciler"

\* Largest exit code and largest signal number a call is given.
MaxExitStatus == 2

MaxTermsig == 2

EXIT_SUCCESS == 0

EXIT_FAILURE == 1

\* process::status::fake_exited, process::status::fake_signaled
fake_exited(n) == [kind |-> "exited", exitstatus |-> n]

fake_signaled(n, core) == [kind |-> "signaled", termsig |-> n, coredump |-> core]

ProcessStatuses ==
    {fake_exited(n) : n \in 0..MaxExitStatus}
        \cup {fake_signaled(n, c) : n \in 1..MaxTermsig, c \in BOOLEAN}

exited(status) == status.kind = "exited"

signaled(status) == status.kind = "signaled"

\* The result types that the model of the executors does not need.
expected_death(r) == [type |-> "expected_death", reason |-> r]

expected_timeout(r) == [type |-> "expected_timeout", reason |-> r]

\* The optional exit_status and signal_no are {} when absent, {k} when k.
expected_exit(a, r) == [type |-> "expected_exit", exit_status |-> a, reason |-> r]

expected_signal(a, r) == [type |-> "expected_signal", signal_no |-> a, reason |-> r]

\* The raw results a results file can be parsed into.
RawResults ==
    { broken("Some arbitrary error"), expected_death("The reason"),
      expected_failure("The reason"), expected_timeout("The reason"),
      failed("The reason"), passed, skipped("The reason") }
        \cup {expected_exit(a, "The reason") :
                a \in {{}} \cup {{k} : k \in 0..MaxExitStatus}}
        \cup {expected_signal(a, "The reason") :
                a \in {{}} \cup {{k} : k \in 1..MaxTermsig}}

\* The value of an optional that is present.
get(opt) == CHOOSE k \in opt : TRUE

format_status(status) ==
    IF exited(status)
    THEN "exited with code " \o ToString(status.exitstatus)
    ELSE IF signaled(status)
         THEN "received signal " \o ToString(status.termsig)
                \o (IF status.coredump THEN " (core dumped)" ELSE "")
         ELSE "terminated in an unknown manner"

\* results::adjust, the branch of a body that timed out.
adjust_timed_out(raw_result) ==
    IF raw_result.type = "expected_timeout"
    THEN raw_result
    ELSE broken("Test case timed out")

\* An adjust that takes any exit for the expected one.
adjust_expected_exit_mutant(raw_result, status) ==
    IF exited(status) THEN raw_result
    ELSE broken("Expected clean exit but " \o format_status(status))

\* results::adjust, the expected_exit branch.
adjust_expected_exit(raw_result, status) ==
    IF exited(status)
    THEN IF raw_result.exit_status # {}
         THEN IF get(raw_result.exit_status) = status.exitstatus
              THEN raw_result
              ELSE broken("Expected clean exit with code "
                            \o ToString(get(raw_result.exit_status))
                            \o " but got code " \o ToString(status.exitstatus))
         ELSE raw_result
    ELSE broken("Expected clean exit but " \o format_status(status))

\* results::adjust, the expected_failure branch.
adjust_expected_failure(raw_result, status) ==
    IF exited(status) /\ status.exitstatus = EXIT_SUCCESS
    THEN raw_result
    ELSE broken("Expected failure should have reported success but "
                    \o format_status(status))

\* results::adjust, the expected_signal branch.
adjust_expected_signal(raw_result, status) ==
    IF signaled(status)
    THEN IF raw_result.signal_no # {}
         THEN IF get(raw_result.signal_no) = status.termsig
              THEN raw_result
              ELSE broken("Expected signal "
                            \o ToString(get(raw_result.signal_no))
                            \o " but got " \o ToString(status.termsig))
         ELSE raw_result
    ELSE broken("Expected signal but " \o format_status(status))

\* An adjust that keeps an expected timeout that did not happen.
adjust_expected_timeout_mutant(raw_result, status) == raw_result

\* results::adjust, the expected_timeout branch of a body that did not time
\* out.
adjust_expected_timeout(raw_result, status) ==
    broken("Expected timeout but " \o format_status(status))

\* An adjust that keeps a failure for every exit code but 0.
adjust_failed_mutant(raw_result, status) ==
    IF exited(status) /\ status.exitstatus # EXIT_SUCCESS
    THEN raw_result
    ELSE broken("Failed test case should have reported failure but "
                    \o format_status(status))

\* results::adjust, the failed branch.
adjust_failed(raw_result, status) ==
    IF exited(status) /\ status.exitstatus = EXIT_FAILURE
    THEN raw_result
    ELSE broken("Failed test case should have reported failure but "
                    \o format_status(status))

\* An adjust that believes every results file that says passed.
adjust_passed_mutant(raw_result, status) == raw_result

\* results::adjust, the passed branch.
adjust_passed(raw_result, status) ==
    IF exited(status) /\ status.exitstatus = EXIT_SUCCESS
    THEN raw_result
    ELSE broken("Passed test case should have reported success but "
                    \o format_status(status))

\* An adjust that believes every results file that says skipped.
adjust_skipped_mutant(raw_result, status) == raw_result

\* results::adjust, the skipped branch.
adjust_skipped(raw_result, status) ==
    IF exited(status) /\ status.exitstatus = EXIT_SUCCESS
    THEN raw_result
    ELSE broken("Skipped test case should have reported success but "
                    \o format_status(status))

\* An adjust that looks at the timeout before it looks at the raw result.
adjust_mutant(raw_result, status, timed_out) ==
    IF timed_out THEN adjust_timed_out(raw_result) ELSE raw_result

adjust(raw_result, status, timed_out) ==
    IF raw_result.type = "broken" THEN raw_result
    ELSE IF timed_out THEN adjust_timed_out(raw_result)
    ELSE CASE raw_result.type = "expected_death" -> raw_result
      [] raw_result.type = "expected_exit" -> adjust_expected_exit(raw_result, status)
      [] raw_result.type = "expected_failure" -> adjust_expected_failure(raw_result, status)
      [] raw_result.type = "expected_signal" -> adjust_expected_signal(raw_result, status)
      [] raw_result.type = "expected_timeout" -> adjust_expected_timeout(raw_result, status)
      [] raw_result.type = "failed" -> adjust_failed(raw_result, status)
      [] raw_result.type = "passed" -> adjust_passed(raw_result, status)
      [] raw_result.type = "skipped" -> adjust_skipped(raw_result, status)

\* One call of results::adjust returns.
Adjust ==
    /\ Reconciler /\ pc = "adjust"
    /\ adjust_call' = [adjust_call EXCEPT
            !.returned = adjust(adjust_call.raw_result, adjust_call.status,
                                adjust_call.timed_out)]
    /\ pc' = "adjusted"
    /\ UNCHANGED << engine, has_cleanup, skip_reason, timeout, workdir, child, sub, term,
                    outcome, handlers, interrupted, result, raised, pending, hist,
                    parse_call, call >>

\* An externalize that keeps the kind of every raw result.
externalize_mutant(raw_result) ==
    [type |-> raw_result.type, reason |-> raw_result.reason]

\* raw_result::externalize: the result shown to the user.
externalize(raw_result) ==
    CASE raw_result.type = "broken" -> broken(raw_result.reason)
      [] raw_result.type = "expected_death" -> expected_failure(raw_result.reason)
      [] raw_result.type = "expected_exit" -> expected_failure(raw_result.reason)
      [] raw_result.type = "expected_failure" -> expected_failure(raw_result.reason)
      [] raw_result.type = "expected_signal" -> expected_failure(raw_result.reason)
      [] raw_result.type = "expected_timeout" -> expected_failure(raw_result.reason)
      [] raw_result.type = "failed" -> failed(raw_result.reason)
      [] raw_result.type = "passed" -> passed
      [] raw_result.type = "skipped" -> skipped(raw_result.reason)

\* The adjusted raw result is externalized.
Externalize ==
    /\ Reconciler /\ pc = "adjusted"
    /\ adjust_call' = [adjust_call EXCEPT
            !.externalized = externalize(adjust_call.returned)]
    /\ pc' = "externalized"
    /\ UNCHANGED << engine, has_cleanup, skip_reason, timeout, workdir, child, sub, term,
                    outcome, handlers, interrupted, result, raised, pending, hist,
                    parse_call, call >>

-----------------------------------------------------------------------------
(* engine/results.cpp: results::load, results::parse and the formatters     *)

Loader == engine = "loader"

\* Texts are sequences of characters; Str is the std::string they spell.
RECURSIVE Str(_)
Str(s) == IF s = << >> THEN "" ELSE Head(s) \o Str(Tail(s))

\* The characters "abcdefghijklmnopqrstuvwxyz_" of results::parse.
StatusChars ==
    { "a", "b", "c", "d", "e", "f", "g", "h", "i", "j", "k", "l", "m", "n",
      "o", "p", "q", "r", "s", "t", "u", "v", "w", "x", "y", "z", "_" }

\* What operator>> of an istringstream skips before an integer.
Whitespace == { " ", "\n" }

Digits == { "0", "1", "2", "3", "4", "5", "6", "7", "8", "9" }

DigitValue(c) ==
    CASE c = "0" -> 0 [] c = "1" -> 1 [] c = "2" -> 2 [] c = "3" -> 3
      [] c = "4" -> 4 [] c = "5" -> 5 [] c = "6" -> 6 [] c = "7" -> 7
      [] c = "8" -> 8 [] c = "9" -> 9

\* std::string::npos, for positions counted from 1.
npos == 0

\* std::string::find_first_of(chars): the first position of s, from pos on,
\* that holds one of chars.
find_first_of(s, chars, pos) ==
    LET hits == { i \in pos..Len(s) : s[i] \in chars }
    IN  IF hits = {} THEN npos ELSE CHOOSE i \in hits : \A j \in hits : i <= j

\* std::string::find_first_not_of(chars)
find_first_not_of(s, chars) ==
    LET hits == { i \in 1..Len(s) : s[i] \notin chars }
    IN  IF hits = {} THEN npos ELSE CHOOSE i \in hits : \A j \in hits : i <= j

\* std::string::find("):", pos)
find_close(s, pos) ==
    LET hits == { i \in pos..(Len(s) - 1) : s[i] = ")" /\ s[i + 1] = ":" }
    IN  IF hits = {} THEN npos ELSE CHOOSE i \in hits : \A j \in hits : i <= j

\* An exception that leaves the function instead of a result.
thrown(what) == [type |-> "thrown", reason |-> what]

\* std::getline on what is left of the stream: the line, what is left after
\* it, and the eof and good bits of the stream afterwards.
getline(input) ==
    LET nl == find_first_of(input, {"\n"}, 1)
    IN  IF nl = npos
        THEN [line |-> input, rest |-> << >>, eof |-> TRUE, good |-> FALSE]
        ELSE [line |-> SubSeq(input, 1, nl - 1),
              rest |-> SubSeq(input, nl + 1, Len(input)),
              eof |-> FALSE, good |-> TRUE]

\* The magic string that read_lines puts between two lines.
NEWLINE == << "<", "<", "N", "E", "W", "L", "I", "N", "E", ">", ">" >>

\* read_lines, the do-while loop entered with ret.
RECURSIVE read_lines_loop(_, _)
read_lines_loop(input, ret) ==
    LET g == getline(input)
        ret2 ==
            IF g.eof /\ g.line # << >>
            THEN IF ret.first = 0
                 THEN [ret EXCEPT !.second = g.line]
                 ELSE [first |-> ret.first + 1,
                       second |-> ret.second \o NEWLINE \o g.line]
            ELSE IF g.good
                 THEN [first |-> ret.first + 1,
                       second |-> IF ret.first = 0 THEN g.line
                                  ELSE ret.second \o NEWLINE \o g.line]
                 ELSE ret
    IN  IF g.good THEN read_lines_loop(g.rest, ret2) ELSE ret2

\* A read_lines that counts a last line that has no end of line.
read_lines_mutant(input) ==
    IF input = << >> \/ input[Len(input)] = "\n"
    THEN read_lines_loop(input, [first |-> 0, second |-> << >>])
    ELSE read_lines_loop(input \o << "\n" >>, [first |-> 0, second |-> << >>])

read_lines(input) == read_lines_loop(input, [first |-> 0, second |-> << >>])

parse_without_reason(status, rest) ==
    IF rest # << >>
    THEN broken(status \o " cannot have a reason")
    ELSE passed

parse_with_reason(status, rest) ==
    IF Len(rest) < 3 \/ SubSeq(rest, 1, 2) # << ":", " " >>
    THEN broken(status \o " must be followed by ': <reason>'")
    ELSE LET reason == Str(SubSeq(rest, 3, Len(rest)))
         IN  CASE status = "expected_death" -> expected_death(reason)
               [] status = "expected_failure" -> expected_failure(reason)
               [] status = "expected_timeout" -> expected_timeout(reason)
               [] status = "failed" -> failed(reason)
               [] status = "skipped" -> skipped(reason)

\* The value of a string of digits.
RECURSIVE DecimalValue(_)
DecimalValue(d) ==
    IF d = << >> THEN 0
    ELSE 10 * DecimalValue(SubSeq(d, 1, Len(d) - 1)) + DigitValue(d[Len(d)])

\* parse_int: none ({}) or the converted integer.  When the string holds
\* only blanks the extraction fails at the end of the string: eof() is
\* true, so the value is returned although nothing was stored in it; it is
\* whatever the build leaves there (indeterminate).
parse_int(str, indeterminate) ==
    IF str = << >> THEN {}
    ELSE LET first == find_first_not_of(str, Whitespace)
         IN  IF first = npos THEN {indeterminate}
             ELSE LET digits == SubSeq(str, first, Len(str))
                      stop == find_first_not_of(digits, Digits)
                  IN  IF stop = npos THEN {DecimalValue(digits)} ELSE {}

\* std::string::substr(pos) for a position counted from 1: out_of_range
\* when the position lies more than one past the end.
substr_throws(s, pos) == pos > Len(s) + 1

parse_with_reason_and_arg(status, rest, indeterminate) ==
    LET delim == find_first_of(rest, {":", "("}, 1)
    IN  IF delim = npos
        THEN broken("Invalid format for '" \o status
                      \o "' test case result; must be followed by "
                      \o "'[(num)]: <reason>' but found '" \o Str(rest) \o "'")
        ELSE LET open == rest[delim] = "("
                 delim2 == find_close(rest, delim)
                 \* `if (delim == npos) throw' never fires: delim was found.
                 argstr == IF delim2 = npos
                           THEN SubSeq(rest, delim + 1, Len(rest))
                           ELSE SubSeq(rest, delim + 1, delim2 - 1)
                 arg == IF open THEN parse_int(argstr, indeterminate) ELSE {}
                 \* delim = delim2 + 1; npos + 1 wraps to the first position.
                 colon == IF open
                          THEN (IF delim2 = npos THEN 1 ELSE delim2 + 1)
                          ELSE delim
             IN  IF open /\ arg = {}
                 THEN broken("Invalid integer argument '" \o Str(argstr)
                               \o "' to '" \o status \o "' test case result")
                 ELSE IF substr_throws(rest, colon + 2)
                 THEN thrown("std::out_of_range")
                 ELSE LET reason == Str(SubSeq(rest, colon + 2, Len(rest)))
                      IN  IF status = "expected_exit"
                          THEN expected_exit(arg, reason)
                          ELSE expected_signal(arg, reason)

parse(input, indeterminate) ==
    LET data == read_lines(input)
    IN  IF data.first = 0
        THEN broken("Empty test result or no new line")
        ELSE IF data.first > 1
        THEN broken("Test result contains multiple lines: " \o Str(data.second))
        ELSE LET delim == find_first_not_of(data.second, StatusChars)
                 status == IF delim = npos THEN Str(data.second)
                           ELSE Str(SubSeq(data.second, 1, delim - 1))
                 rest == IF delim = npos THEN << >>
                         ELSE SubSeq(data.second, delim, Len(data.second))
             IN  CASE status = "expected_death" -> parse_with_reason(status, rest)
                   [] status = "expected_exit" ->
                        parse_with_reason_and_arg(status, rest, indeterminate)
                   [] status = "expected_failure" -> parse_with_reason(status, rest)
                   [] status = "expected_signal" ->
                        parse_with_reason_and_arg(status, rest, indeterminate)
                   [] status = "expected_timeout" -> parse_with_reason(status, rest)
                   [] status = "failed" -> parse_with_reason(status, rest)
                   [] status = "passed" -> parse_without_reason(status, rest)
                   [] status = "skipped" -> parse_with_reason(status, rest)
                   [] OTHER -> broken("Unknown test result '" \o status \o "'")

\* A load that does not say which file it failed to open.
load_mutant(file, indeterminate) ==
    IF ~file.exists
    THEN broken("Cannot open results file")
    ELSE parse(file.content, indeterminate)

load(file, indeterminate) ==
    IF ~file.exists
    THEN broken("Results file '" \o file.path \o "' cannot be opened")
    ELSE parse(file.content, indeterminate)

\* The status names that results::parse knows.
StatusNames ==
    { << "e", "x", "p", "e", "c", "t", "e", "d", "_", "d", "e", "a", "t", "h" >>,
      << "e", "x", "p", "e", "c", "t", "e", "d", "_", "e", "x", "i", "t" >>,
      << "e", "x", "p", "e", "c", "t", "e", "d", "_", "f", "a", "i", "l", "u", "r", "e" >>,
      << "e", "x", "p", "e", "c", "t", "e", "d", "_", "s", "i", "g", "n", "a", "l" >>,
      << "e", "x", "p", "e", "c", "t", "e", "d", "_", "t", "i", "m", "e", "o", "u", "t" >>,
      << "f", "a", "i", "l", "e", "d" >>,
      << "p", "a", "s", "s", "e", "d" >>,
      << "s", "k", "i", "p", "p", "e", "d" >> }

\* The texts whose spelling the model needs: the status names, the word
\* broken, the reasons of RawResults and the integers of one digit.
KnownTexts ==
    { << >>,
      << "e", "x", "p", "e", "c", "t", "e", "d", "_", "d", "e", "a", "t", "h" >>,
      << "e", "x", "p", "e", "c", "t", "e", "d", "_", "e", "x", "i", "t" >>,
      << "e", "x", "p", "e", "c", "t", "e", "d", "_", "f", "a", "i", "l", "u", "r", "e" >>,
      << "e", "x", "p", "e", "c", "t", "e", "d", "_", "s", "i", "g", "n", "a", "l" >>,
      << "e", "x", "p", "e", "c", "t", "e", "d", "_", "t", "i", "m", "e", "o", "u", "t" >>,
      << "f", "a", "i", "l", "e", "d" >>,
      << "p", "a", "s", "s", "e", "d" >>,
      << "s", "k", "i", "p", "p", "e", "d" >>,
      << "b", "r", "o", "k", "e", "n" >>,
      << "T", "h", "e", " ", "r", "e", "a", "s", "o", "n" >>,
      << "S", "o", "m", "e", " ", "a", "r", "b", "i", "t", "r", "a", "r", "y", " ", "e", "r", "r", "o", "r" >>,
      << "0" >>,
      << "1" >>,
      << "2" >>,
      << "3" >>,
      << "4" >>,
      << "5" >>,
      << "6" >>,
      << "7" >>,
      << "8" >>,
      << "9" >> }

\* The characters of a std::string, for the strings of KnownTexts.
Chars(str) == CHOOSE c \in KnownTexts : Str(c) = str

\* results::*::format
format(r) ==
    CASE r.type = "broken" -> Chars("broken") \o << ":", " " >> \o Chars(r.reason)
      [] r.type = "expected_death" ->
            Chars("expected_death") \o << ":", " " >> \o Chars(r.reason)
      [] r.type = "expected_exit" ->
            IF r.exit_status # {}
            THEN Chars("expected_exit") \o << "(" >>
                    \o Chars(ToString(get(r.exit_status)))
                    \o << ")", ":", " " >> \o Chars(r.reason)
            ELSE Chars("expected_exit") \o << ":", " " >> \o Chars(r.reason)
      [] r.type = "expected_failure" ->
            Chars("expected_failure") \o << ":", " " >> \o Chars(r.reason)
      [] r.type = "expected_signal" ->
            IF r.signal_no # {}
            THEN Chars("expected_signal") \o << "(" >>
                    \o Chars(ToString(get(r.signal_no)))
                    \o << ")", ":", " " >> \o Chars(r.reason)
            ELSE Chars("expected_signal") \o << ":", " " >> \o Chars(r.reason)
      [] r.type = "expected_timeout" ->
            Chars("expected_timeout") \o << ":", " " >> \o Chars(r.reason)
      [] r.type = "failed" -> Chars("failed") \o << ":", " " >> \o Chars(r.reason)
      [] r.type = "passed" -> Chars("passed")
      [] r.type = "skipped" -> Chars("skipped") \o << ":", " " >> \o Chars(r.reason)

\* The longest text that follows the first word of a results file.
MaxTail == 3

\* The characters such a text is made of.
TailChars == { ":", " ", "(", ")", "1", "a", "\n" }

Texts(n) == UNION { [1..k -> TailChars] : k \in 0..n }

\* What a test case may leave in its results file: a status name, the
\* word broken or nothing, followed by any short text; and what the
\* formatters write, with and without the end of line.
FileContents ==
    { Chars(w) \o t : w \in { Str(n) : n \in StatusNames } \cup { "broken", "" },
                      t \in Texts(MaxTail) }
    \cup { format(r) \o nl : r \in RawResults, nl \in { << >>, << "\n" >> } }

\* The values an int that was never assigned may hold.
IndeterminateInts == 0..1

\* The results file that results::load is asked to read.
ResultFiles ==
    { [path |-> "result.txt", exists |-> TRUE, content |-> c] : c \in FileContents }
    \cup { [path |-> f, exists |-> FALSE, content |-> << >>] :
                f \in { "result.txt", "foo" } }

\* One call of results::load returns, or ends with an exception.
Load ==
    /\ Loader /\ pc = "load"
    /\ \E indeterminate \in IndeterminateInts :
        parse_call' = [parse_call EXCEPT
                        !.returned = load(parse_call.file, indeterminate)]
    /\ pc' = "loaded"
    /\ UNCHANGED << engine, has_cleanup, skip_reason, timeout, workdir, child, sub, term,
                    outcome, handlers, interrupted, result, raised, pending, hist,
                    adjust_call, call >>

InitLoader ==
    /\ engine = "loader"
    /\ pc = "load"
    /\ has_cleanup = FALSE
    /\ skip_reason = ""
    /\ timeout = default_timeout
    /\ workdir = "none"
    /\ child = [p \in Phases |-> "unborn"]
    /\ sub = [p \in Phases |-> "none"]
    /\ term = [p \in Phases |-> "alive"]
    /\ outcome = [p \in Phases |-> "unset"]
    /\ handlers = [s \in Signals |-> "original"]
    /\ interrupted = "none"
    /\ result = NoResult
    /\ raised = "none"
    /\ pending = "none"
    /\ hist = InitHist
    /\ adjust_call = NoCall
    /\ parse_call \in [file : ResultFiles, returned : { NoResult }]
    /\ call = Idle

\* What results::load hands to results::adjust: any raw result when the
\* test case left a results file, and what load makes of a file that is
\* not there.
LoadedResults ==
    { [file |-> "present", raw_result |-> r] : r \in RawResults }
    \cup { [file |-> "missing",
            raw_result |-> load([path |-> "result.txt", exists |-> FALSE,
                                 content |-> << >>], 0)] }

InitReconciler ==
    /\ engine = "reconciler"
    /\ pc = "adjust"
    /\ has_cleanup = FALSE
    /\ skip_reason = ""
    /\ timeout = default_timeout
    /\ workdir = "none"
    /\ child = [p \in Phases |-> "unborn"]
    /\ sub = [p \in Phases |-> "none"]
    /\ term = [p \in Phases |-> "alive"]
    /\ outcome = [p \in Phases |-> "unset"]
    /\ handlers = [s \in Signals |-> "original"]
    /\ interrupted = "none"
    /\ result = NoResult
    /\ raised = "none"
    /\ pending = "none"
    /\ hist = InitHist
    /\ \E raw \in LoadedResults, status \in ProcessStatuses, timed_out \in BOOLEAN :
        adjust_call = [file |-> raw.file, raw_result |-> raw.raw_result,
                       status |-> status, timed_out |-> timed_out,
                       returned |-> NoResult, externalized |-> NoResult]
    /\ parse_call = NoLoad
    /\ call = Idle

-----------------------------------------------------------------------------
(* Functions called on their own: the executors are at rest                 *)

\* The variables of the executors, which no such call touches.
ExecutorVars ==
    << has_cleanup, skip_reason, timeout, workdir, child, sub, term, outcome,
       handlers, interrupted, result, raised, pending, hist, adjust_call,
       parse_call >>

\* No executor, reconciler or loader is at work.
NoExecutor ==
    /\ has_cleanup = FALSE
    /\ skip_reason = ""
    /\ timeout = default_timeout
    /\ workdir = "none"
    /\ child = [p \in Phases |-> "unborn"]
    /\ sub = [p \in Phases |-> "none"]
    /\ term = [p \in Phases |-> "alive"]
    /\ outcome = [p \in Phases |-> "unset"]
    /\ handlers = [s \in Signals |-> "original"]
    /\ interrupted = "none"
    /\ result = NoResult
    /\ raised = "none"
    /\ pending = "none"
    /\ hist = InitHist
    /\ adjust_call = NoCall
    /\ parse_call = NoLoad

-----------------------------------------------------------------------------
(* engine/atf_iface/test_case.cpp: atf_iface::test_case::check_requirements *)

Gate == engine = "gate"

\* The configuration property a required configuration variable stands for.
config_property(name) ==
    IF name = "unprivileged-user" \/ name = "unprivileged_user"
    THEN "unprivileged_user"
    ELSE "test_suites.suite." \o name

\* The loop over required_configs.  The sets of the model hold one name at
\* most, so that the order of the iteration does not matter.
check_required_configs(tc, env) ==
    LET unset == { c \in tc.required_configs : config_property(c) \notin env.is_set }
    IN  IF unset # {}
        THEN "Required configuration property '" \o (CHOOSE c \in unset : TRUE)
                \o "' not defined"
        ELSE ""

check_allowed_architectures(tc, env) ==
    IF tc.allowed_architectures # {} /\ env.architecture \notin tc.allowed_architectures
    THEN "Current architecture '" \o env.architecture \o "' not supported"
    ELSE ""

check_allowed_platforms(tc, env) ==
    IF tc.allowed_platforms # {} /\ env.platform \notin tc.allowed_platforms
    THEN "Current platform '" \o env.platform \o "' not supported"
    ELSE ""

check_required_user(tc, env) ==
    IF tc.required_user = "root" /\ ~env.is_root
    THEN "Requires root privileges"
    ELSE IF tc.required_user = "unprivileged" /\ env.is_root
            /\ "unprivileged_user" \notin env.is_set
    THEN "Requires an unprivileged user but the unprivileged-user "
            \o "configuration variable is not defined"
    ELSE ""

check_required_files(tc, env) ==
    LET missing == { f \in tc.required_files : f \notin env.exists }
    IN  IF missing # {}
        THEN "Required file '" \o (CHOOSE f \in missing : TRUE) \o "' not found"
        ELSE ""

\* fs::path::is_absolute for the paths of the model.
is_absolute(path) == path \in { "/the/file", "/bin/prog" }

check_required_programs(tc, env) ==
    LET missing == { f \in tc.required_programs :
                        IF is_absolute(f) THEN f \notin env.exists
                        ELSE f \notin env.in_path }
    IN  IF missing = {} THEN ""
        ELSE LET f == CHOOSE f \in missing : TRUE
             IN  IF is_absolute(f)
                 THEN "Required program '" \o f \o "' not found"
                 ELSE "Required program '" \o f \o "' not found in PATH"

check_required_memory(tc, env) ==
    IF tc.required_memory > 0 /\ env.physical_memory > 0
            /\ env.physical_memory < tc.required_memory
    THEN "Requires " \o ToString(tc.required_memory)
            \o " bytes of physical memory but only "
            \o ToString(env.physical_memory) \o " available"
    ELSE ""

\* A check_requirements that looks at the memory and at the user first.
check_requirements_mutant(tc, env) ==
    IF check_required_memory(tc, env) # "" THEN check_required_memory(tc, env)
    ELSE IF check_required_user(tc, env) # "" THEN check_required_user(tc, env)
    ELSE IF check_required_configs(tc, env) # "" THEN check_required_configs(tc, env)
    ELSE IF check_allowed_architectures(tc, env) # ""
    THEN check_allowed_architectures(tc, env)
    ELSE IF check_allowed_platforms(tc, env) # "" THEN check_allowed_platforms(tc, env)
    ELSE IF check_required_files(tc, env) # "" THEN check_required_files(tc, env)
    ELSE check_required_programs(tc, env)

check_requirements(tc, env) ==
    IF check_required_configs(tc, env) # "" THEN check_required_configs(tc, env)
    ELSE IF check_allowed_architectures(tc, env) # ""
    THEN check_allowed_architectures(tc, env)
    ELSE IF check_allowed_platforms(tc, env) # "" THEN check_allowed_platforms(tc, env)
    ELSE IF check_required_user(tc, env) # "" THEN check_required_user(tc, env)
    ELSE IF check_required_files(tc, env) # "" THEN check_required_files(tc, env)
    ELSE IF check_required_programs(tc, env) # "" THEN check_required_programs(tc, env)
    ELSE check_required_memory(tc, env)

\* The largest amount of memory a test case requires, in bytes.
MaxMemory == 2

\* The requirements a test case may declare.
Requirements ==
    [ required_configs : { {}, {"var1"}, {"unprivileged-user"} },
      allowed_architectures : { {}, {"x86_64"}, {"powerpc"} },
      allowed_platforms : { {}, {"macppc"} },
      required_user : { "", "root", "unprivileged" },
      required_files : { {}, {"/the/file"} },
      required_programs : { {}, {"/bin/prog"}, {"prog"} },
      required_memory : { 0, MaxMemory } ]

\* The machine and the configuration the test case is checked against.
Environments ==
    [ is_set : { {}, {"unprivileged_user", "test_suites.suite.var1"} },
      architecture : { "x86_64" },
      platform : { "amd64" },
      is_root : BOOLEAN,
      exists : { {}, {"/the/file", "/bin/prog"} },
      in_path : { {}, {"prog"} },
      physical_memory : { 0, 1, MaxMemory + 1 } ]

\* One call of check_requirements returns.
CheckRequirements ==
    /\ Gate /\ pc = "check_requirements"
    /\ call' = [call EXCEPT !.returned = check_requirements(call.tc, call.env)]
    /\ pc' = "checked"
    /\ UNCHANGED << engine, ExecutorVars >>

InitGate ==
    /\ engine = "gate"
    /\ pc = "check_requirements"
    /\ NoExecutor
    /\ \E tc \in Requirements, env \in Environments :
        call = [fn |-> "check_requirements", tc |-> tc, env |-> env,
                   returned |-> "unset"]

-----------------------------------------------------------------------------
(* engine/plain_test.cpp: the result of a test program of the plain         *)
(* interface                                                                *)

Plain == engine = "plain"

\* The status of a process that was killed at its deadline: none.
none == [kind |-> "none"]

\* A compute_result that believes what the program left in its directory.
plain_compute_result_mutant(status, control_directory) ==
    IF control_directory = "passed" THEN passed
    ELSE IF status = none THEN broken("Test case timed out")
    ELSE IF exited(status)
    THEN IF status.exitstatus = EXIT_SUCCESS THEN passed
         ELSE failed("Returned non-success exit status " \o ToString(status.exitstatus))
    ELSE broken("Received signal " \o ToString(status.termsig))

\* compute_result of the plain interface: the result of the only test case
\* of a plain test program that terminated with status.
plain_compute_result(status, control_directory) ==
    IF status = none THEN broken("Test case timed out")
    ELSE IF exited(status)
    THEN IF status.exitstatus = EXIT_SUCCESS THEN passed
         ELSE failed("Returned non-success exit status " \o ToString(status.exitstatus))
    ELSE broken("Received signal " \o ToString(status.termsig))

\* What a plain test program may have left in its control directory.
ControlDirectories == { "empty", "passed", "failed: The reason" }

\* One call of compute_result returns.
PlainComputeResult ==
    /\ Plain /\ pc = "compute_result"
    /\ call' = [call EXCEPT
            !.returned = plain_compute_result(call.status, call.control_directory)]
    /\ pc' = "computed"
    /\ UNCHANGED << engine, ExecutorVars >>

InitPlain ==
    /\ engine = "plain"
    /\ pc = "compute_result"
    /\ NoExecutor
    /\ \E status \in ProcessStatuses \cup { none }, dir \in ControlDirectories :
        call = [fn |-> "compute_result", status |-> status,
                control_directory |-> dir, returned |-> NoResult]

-----------------------------------------------------------------------------
(* engine/test_case.cpp: the comparison of test case identifiers            *)

Ids == engine = "ids"

\* The position of a character in the collating order of std::string.
CharRank(ch) == CHOOSE i \in 1..2 : << "a", "b" >>[i] = ch

\* operator< of std::string and of fs::path: lexicographic comparison of
\* the characters.
RECURSIVE string_lt(_, _)
string_lt(x, y) ==
    IF y = << >> THEN FALSE
    ELSE IF x = << >> THEN TRUE
    ELSE IF Head(x) # Head(y) THEN CharRank(Head(x)) < CharRank(Head(y))
    ELSE string_lt(Tail(x), Tail(y))

\* test_case_id::operator<
test_case_id_lt(self, id) ==
    string_lt(self.program, id.program) \/ string_lt(self.name, id.name)

\* test_case_id::operator==
test_case_id_eq(self, id) ==
    self.program = id.program /\ self.name = id.name

\* The comparison the pair (program, name) calls for.
lexicographic_lt(self, id) ==
    \/ string_lt(self.program, id.program)
    \/ self.program = id.program /\ string_lt(self.name, id.name)

\* The texts identifiers are built from.
IdTexts == { << "a" >>, << "a", "b" >>, << "b" >> }

TestCaseIds == [ program : IdTexts, name : IdTexts ]

\* The identifiers a, b and c are compared with each other.
CompareIds ==
    /\ Ids /\ pc = "compare"
    /\ call' = [call EXCEPT !.returned =
            [ aa |-> test_case_id_lt(call.a, call.a),
              ab |-> test_case_id_lt(call.a, call.b),
              ba |-> test_case_id_lt(call.b, call.a),
              bc |-> test_case_id_lt(call.b, call.c),
              ac |-> test_case_id_lt(call.a, call.c),
              eq |-> test_case_id_eq(call.a, call.b) ]]
    /\ pc' = "compared"
    /\ UNCHANGED << engine, ExecutorVars >>

InitIds ==
    /\ engine = "ids"
    /\ pc = "compare"
    /\ NoExecutor
    /\ \E a \in TestCaseIds, b \in TestCaseIds, c \in TestCaseIds :
        call = [fn |-> "operator<", a |-> a, b |-> b, c |-> c,
                returned |-> "unset"]

-----------------------------------------------------------------------------
(* engine/atf_iface/test_case.cpp: a test case out of its properties        *)

Properties == engine = "properties"

\* The largest unsigned long of the model.
ULONG_MAX == 99

\* The values of errno
EINVAL == 22
ERANGE == 34

\* The characters strtoul skips before the number.
isspace == { " ", "\t", "\n" }

\* The longest run of digits a text starts with.
RECURSIVE leading_digits(_)
leading_digits(str) ==
    IF str = << >> \/ Head(str) \notin Digits THEN << >>
    ELSE << Head(str) >> \o leading_digits(Tail(str))

\* The text without the white space it starts with.
RECURSIVE skip_space(_)
skip_space(str) ==
    IF str # << >> /\ Head(str) \in isspace THEN skip_space(Tail(str)) ELSE str

\* std::strtoul(value, &endptr, 10) called with errno as the last failure
\* left it: the converted value, the position endptr points to (Len + 1 is
\* the terminating '\0') and errno afterwards.
strtoul(value, errno) ==
    LET unspaced == skip_space(value)
        signed == unspaced # << >> /\ Head(unspaced) \in { "+", "-" }
        number == IF signed THEN Tail(unspaced) ELSE unspaced
        digits == leading_digits(number)
        magnitude == DecimalValue(digits)
    IN  IF digits = << >>
        THEN [l |-> 0, endptr |-> 1, errno |-> EINVAL]
        ELSE IF magnitude > ULONG_MAX
        THEN [l |-> ULONG_MAX, endptr |-> Len(value) - Len(number) + Len(digits) + 1,
              errno |-> ERANGE]
        ELSE [l |-> IF signed /\ Head(unspaced) = "-"
                    THEN (ULONG_MAX + 1 - magnitude) % (ULONG_MAX + 1)
                    ELSE magnitude,
              endptr |-> Len(value) - Len(number) + Len(digits) + 1,
              errno |-> errno]

\* detail::parse_ulong: the value, or the format_error thrown.
parse_ulong(name, value, errno) ==
    IF value = << >>
    THEN thrown("Invalid empty value for integer property '" \o name \o "'")
    ELSE LET r == strtoul(value, errno)
         IN  IF \/ find_first_of(value, { "-", " ", "\t" }, 1) # npos
                \/ r.endptr # Len(value) + 1
                \/ r.l = 0 /\ r.errno = EINVAL
                \/ r.l = ULONG_MAX /\ r.errno = ERANGE
             THEN thrown("Invalid value '" \o Str(value)
                           \o "' for integer property '" \o name \o "'")
             ELSE [type |-> "value", value |-> r.l]

\* test_case::from_properties for the properties named in names, timeout
\* and one that no test case has: the timeout of the new test case, or the
\* format_error thrown.
from_properties(raw_properties, errno) ==
    LET timeout_ == IF "timeout" \in raw_properties.names
                    THEN parse_ulong("timeout", raw_properties.timeout, errno)
                    ELSE [type |-> "value", value |-> default_timeout]
    IN  IF timeout_.type = "thrown"
        THEN timeout_
        ELSE IF "unknown" \in raw_properties.names
        THEN thrown("Unknown test case metadata property 'unknown'")
        ELSE [type |-> "test_case", timeout |-> timeout_.value]

\* The values of the property "timeout" a test program lists.
TimeoutTexts ==
    { << >>, << "0" >>, << "5" >>, << "+", "5" >>, << "-", "5" >>,
      << "5", " " >>, << "x" >>, << "5", "x" >>, << "\n", "5" >>,
      << "9", "9" >>, << "1", "0", "0" >> }

\* One call of from_properties returns.
FromProperties ==
    /\ Properties /\ pc = "from_properties"
    /\ call' = [call EXCEPT
            !.returned = from_properties(call.raw_properties, call.errno)]
    /\ pc' = "constructed"
    /\ UNCHANGED << engine, ExecutorVars >>

InitProperties ==
    /\ engine = "properties"
    /\ pc = "from_properties"
    /\ NoExecutor
    /\ \E names \in SUBSET { "timeout", "unknown" }, value \in TimeoutTexts,
          errno \in { 0, EINVAL, ERANGE } :
        /\ "timeout" \notin names => value = << >>
        /\ call = [fn |-> "from_properties",
                   raw_properties |-> [names |-> names, timeout |-> value],
                   errno |-> errno, returned |-> "unset"]

-----------------------------------------------------------------------------
(* engine/scheduler.cpp, engine/runner.cpp: the list of test cases of a     *)
(* test program                                                             *)

Lister == engine = "lister"

\* A test case of the list, fake_result being NoResult for a real one.
listed_test_case(name) == [name |-> name, fake_result |-> NoResult]

fake_test_case(name, fake_result) == [name |-> name, fake_result |-> fake_result]

\* What a call gives back: the exception it raised, if any, else the test
\* cases.
raises(exception) == [raised |-> exception, test_cases |-> {}]

returns(test_cases) == [raised |-> "none", test_cases |-> test_cases]

\* The steps of list_tests inside its try block.
ListSteps == { "spawn", "wait", "parse_list", "cleanup" }

\* A list_tests that hands back whatever parse_list found.
list_tests_mutant(caught, throws, listed) ==
    IF caught THEN raises("interrupted_error")
    ELSE IF throws.at \in ListSteps
    THEN returns({ fake_test_case("__test_cases_list__", broken(throws.what)) })
    ELSE returns({ listed_test_case(n) : n \in listed })

\* scheduler_handle::list_tests when a signal was caught before the call
\* (caught), the step throws.at raises runtime_error(throws.what) and
\* parse_list finds the test cases listed.
list_tests(caught, throws, listed) ==
    IF caught THEN raises("interrupted_error")
    ELSE IF throws.at \in ListSteps
    THEN returns({ fake_test_case("__test_cases_list__", broken(throws.what)) })
    ELSE IF listed = {}
    THEN returns({ fake_test_case("__test_cases_list__",
                                  broken("Empty test cases list")) })
    ELSE returns({ listed_test_case(n) : n \in listed })

\* lazy_test_program::test_cases for a program not yet loaded; interrupt
\* says whether a signal was caught before the call, during the listing or
\* not at all.
test_cases(interrupt, throws, listed) ==
    IF interrupt = "before" THEN raises("interrupted_error")
    ELSE LET tcs == list_tests(FALSE, throws, listed)
         IN  IF interrupt = "during" THEN raises("interrupted_error") ELSE tcs

\* runner::run_test_program up to its loop: the test cases it goes on to
\* run, or the one it reports through the hooks when load_test_cases
\* raises.
run_test_program(throws, listed) ==
    IF throws.at = "load_test_cases"
    THEN returns({ fake_test_case("__test_program__",
            broken("Failed to load list of test cases: " \o throws.what)) })
    ELSE returns({ listed_test_case(n) : n \in listed })

\* The names a test program lists.
ListedNames == SUBSET { "first", "second" }

\* Where and with what text the listing fails.
ListFailures(steps) ==
    { [at |-> "none", what |-> ""] } \cup
    [ at : steps, what : { "Failed to execute the test program",
                           "Invalid header for test case list" } ]

\* The scheduler lists the test cases of a program.
TestCases ==
    /\ Lister /\ pc = "test_cases"
    /\ call' = [call EXCEPT
            !.returned = test_cases(call.interrupt, call.throws, call.listed)]
    /\ pc' = "listed"
    /\ UNCHANGED << engine, ExecutorVars >>

\* The runner lists the test cases of a program.
RunTestProgram ==
    /\ Lister /\ pc = "run_test_program"
    /\ call' = [call EXCEPT
            !.returned = run_test_program(call.throws, call.listed)]
    /\ pc' = "listed"
    /\ UNCHANGED << engine, ExecutorVars >>

InitLister ==
    /\ engine = "lister"
    /\ NoExecutor
    /\ \/ /\ pc = "test_cases"
          /\ \E interrupt \in { "none", "before", "during" },
                throws \in ListFailures(ListSteps),
                listed \in ListedNames :
                call = [fn |-> "test_cases", interrupt |-> interrupt,
                        throws |-> throws, listed |-> listed,
                        returned |-> "unset"]
       \/ /\ pc = "run_test_program"
          /\ \E throws \in ListFailures({ "load_test_cases" }),
                listed \in ListedNames :
                call = [fn |-> "run_test_program", interrupt |-> "none",
                        throws |-> throws, listed |-> listed,
                        returned |-> "unset"]

-----------------------------------------------------------------------------
(* engine/scheduler.cpp: several tests on one scheduler handle and the      *)
(* table of active executions.  call holds the members of the handle:       *)
(*   test_cases     whether each test case to run declares has_cleanup      *)
(*   spawn_handles  the exec handle spawn_test returned for each test       *)
(*   cleanup_handles the exec handle of the cleanup of each test, 0 if none *)
(*   next_handle    the exec handle the generic executor hands out next     *)
(*   all_exec_data  the table: one exec_data per exec handle                *)
(*   children       the subprocesses and how each terminated                *)
(*   reaped         the exec handles generic.wait_any has returned          *)
(*   results        the result handles wait_any returned, in order          *)
(*   destroyed      which of them the caller has destroyed                  *)

Table == engine = "table"

\* Largest number of test cases spawned on the handle.
MaxTests == 2

\* How a subprocess of a test may terminate.
TableStatuses == { "exited(0)", "exited(1)" }

\* exec_data: what the table keeps for the exec handle of a body
\* (body_exit_handle 0 and body_result NoResult stand for none) or of a
\* cleanup.
exec_data(handle, test, body_exit_handle, body_result) ==
    [handle |-> handle, test |-> test, body_exit_handle |-> body_exit_handle,
     body_result |-> body_result]

\* all_exec_data.find(handle)
find(all_exec_data, handle) == CHOOSE data \in all_exec_data : data.handle = handle

\* all_exec_data.erase(handle)
erase(all_exec_data, handle) == { data \in all_exec_data : data.handle # handle }

\* A wait_any that hands the exit handle of the cleanup to its caller.
returned_handle_mutant(data, handle) == handle

\* wait_any: the exit handle put in the result handle is the one of the
\* body, also when it is the cleanup that has just terminated.
returned_handle(data, handle) ==
    IF data.body_result # NoResult THEN data.body_exit_handle ELSE handle

\* The results a body is given in this engine.
TableBodyResults(st) ==
    { r \in compute_body_result(st) :
        r \in { passed, failed("The reason") } }

\* spawn_test: the generic executor forks the body under a new exec handle
\* and the table gets its exec_data.
T_SpawnTest ==
    /\ Table /\ pc = "idle"
    /\ Len(call.spawn_handles) < Len(call.test_cases)
    /\ LET handle == call.next_handle
           test == Len(call.spawn_handles) + 1
       IN  call' = [call EXCEPT
                !.next_handle = handle + 1,
                !.children = @ \cup { [handle |-> handle, status |-> "running"] },
                !.all_exec_data = @ \cup { exec_data(handle, test, 0, NoResult) },
                !.spawn_handles = Append(@, handle)]
    /\ UNCHANGED << engine, pc, ExecutorVars >>

\* A subprocess of the handle terminates.
T_ChildTerminates ==
    /\ Table
    /\ \E c \in call.children, st \in TableStatuses :
        /\ c.status = "running"
        /\ call' = [call EXCEPT
                !.children = (@ \ { c }) \cup { [c EXCEPT !.status = st] }]
    /\ UNCHANGED << engine, pc, ExecutorVars >>

\* The caller calls wait_any for a test whose result it has not been given.
T_CallWaitAny ==
    /\ Table /\ pc = "idle"
    /\ Len(call.results) < Len(call.spawn_handles)
    /\ pc' = "table_wait_any"
    /\ UNCHANGED << engine, call, ExecutorVars >>

\* wait_any once generic.wait_any returns a terminated subprocess: a body
\* without cleanup is reported; a body with cleanup has its cleanup spawned
\* and wait_any calls itself; a cleanup is reconciled with the result of
\* its body and reported under the exit handle of the body.
T_WaitAny ==
    /\ Table /\ pc = "table_wait_any"
    /\ \E c \in call.children :
        /\ c.status # "running" /\ c.handle \notin call.reaped
        /\ LET data == find(call.all_exec_data, c.handle)
               reaped == call.reaped \cup { c.handle }
           IN  IF data.body_result = NoResult
               THEN \E r \in TableBodyResults(c.status) :
                    IF call.test_cases[data.test]
                    THEN /\ call' = [call EXCEPT
                                !.reaped = reaped,
                                !.next_handle = @ + 1,
                                !.children = @ \cup
                                    { [handle |-> call.next_handle,
                                       status |-> "running"] },
                                !.all_exec_data = @ \cup
                                    { exec_data(call.next_handle, data.test,
                                                c.handle, r) },
                                !.cleanup_handles[data.test] = call.next_handle]
                         /\ pc' = "table_wait_any"
                    ELSE /\ call' = [call EXCEPT
                                !.reaped = reaped,
                                !.results = Append(@,
                                    [test |-> data.test,
                                     original_exec_handle |->
                                        returned_handle(data, c.handle),
                                     test_result |-> r,
                                     reaped |-> reaped])]
                         /\ pc' = "idle"
               ELSE /\ call' = [call EXCEPT
                            !.reaped = reaped,
                            !.results = Append(@,
                                [test |-> data.test,
                                 original_exec_handle |->
                                    returned_handle(data, c.handle),
                                 test_result |->
                                    cleanup_result(data.body_result, c.status),
                                 reaped |-> reaped])]
                    /\ pc' = "idle"
    /\ UNCHANGED << engine, ExecutorVars >>

\* The caller lets go of a result handle: ~bimpl erases the exec_data of
\* generic.original_exec_handle() from the table.
T_DestroyResultHandle ==
    /\ Table /\ pc = "idle"
    /\ \E i \in (1..Len(call.results)) \ call.destroyed :
        call' = [call EXCEPT
            !.all_exec_data = erase(@, call.results[i].original_exec_handle),
            !.destroyed = @ \cup { i }]
    /\ UNCHANGED << engine, pc, ExecutorVars >>

NextTable ==
    \/ T_SpawnTest
    \/ T_ChildTerminates
    \/ T_CallWaitAny
    \/ T_WaitAny
    \/ T_DestroyResultHandle

InitTable ==
    /\ engine = "table"
    /\ pc = "idle"
    /\ NoExecutor
    /\ \E n \in 1..MaxTests : \E cleanups \in [1..n -> BOOLEAN] :
        call = [fn |-> "scheduler_handle",
                test_cases |-> cleanups,
                spawn_handles |-> << >>,
                cleanup_handles |-> [t \in 1..n |-> 0],
                next_handle |-> 1,
                all_exec_data |-> {},
                children |-> {},
                reaped |-> {},
                results |-> << >>,
                destroyed |-> {}]

-----------------------------------------------------------------------------

Init ==
    \/ InitRunner \/ InitProtected \/ InitScheduler \/ InitReconciler \/ InitLoader
    \/ InitGate \/ InitPlain \/ InitIds
    \/ InitProperties \/ InitLister \/ InitTable

Next ==
    \/ NextRunner
    \/ NextProtected
    \/ NextScheduler
    \/ Adjust
    \/ Externalize
    \/ Load
    \/ CheckRequirements
    \/ PlainComputeResult
    \/ CompareIds
    \/ FromProperties
    \/ TestCases
    \/ RunTestProgram
    \/ NextTable
    \/ Signal
    \/ ChildSpawnsSub
    \/ ChildTerminates

Spec == Init /\ [][Next]_vars

-----------------------------------------------------------------------------
(* Properties                                                              *)

\* The executor has handed control back to its caller.
HandedBack == pc \in {"returned", "raised"}

\* Position of event e in the history of the run, 0 when it has not happened.
Pos(e) ==
    IF \E i \in DOMAIN hist.events : hist.events[i] = e
    THEN CHOOSE i \in DOMAIN hist.events : hist.events[i] = e
    ELSE 0

Happened(e) == Pos(e) > 0

\* If both events happened, a happened first.
Before(a, b) == (Happened(a) /\ Happened(b)) => Pos(a) < Pos(b)

\* How many times event e happened.
Count(e) == Cardinality({i \in DOMAIN hist.events : hist.events[i] = e})

CommonOrder ==
    /\ Before("body_reaped", "cleanup_spawned")
    /\ Happened("cleanup_spawned") => (has_cleanup /\ Happened("body_reaped"))
    /\ child["cleanup"] # "unborn" => (has_cleanup /\ child["body"] = "reaped")
    /\ \A e \in {"body_spawned", "body_reaped", "cleanup_spawned", "cleanup_reaped"} :
        /\ Before(e, "workdir_removed")
        /\ Before(e, "result_returned")
    /\ Happened("workdir_removed") => \A p \in Phases : child[p] \in {"unborn", "reaped"}
    /\ (Happened("result_returned") /\ Happened("body_reaped") /\ has_cleanup
            /\ hist.error_at = "none")
        => Happened("cleanup_reaped")

C4_Original ==
    (Protected /\ HandedBack /\ hist.sigs > 0) =>
        (pc = "raised" /\ raised = "interrupted")

\* C5: when fork_and_wait has returned for a child, either the deadline
\* expired on the running child, in which case the outcome is none, the
\* child and any subprocess of its group were sent SIGKILL, nothing of the
\* group is still running and the child is reaped; or the child terminated
\* in time and the outcome is the status it terminated with.
C5_Supervisor ==
    \A p \in Phases :
        outcome[p] # "unset" =>
            /\ child[p] = "reaped"
            /\ ~GroupRunning(p)
            /\ sub[p] = "killed" => "sub" \in hist.sigkill[p]
            /\ hist.expired[p] =>
                /\ outcome[p] = "none"
                /\ "child" \in hist.sigkill[p]
            /\ ~hist.expired[p] =>
                /\ outcome[p] \in Statuses
                /\ outcome[p] = term[p]

C5_Witness ==
    /\ Runner
    /\ hist.expired["body"]
    /\ outcome["body"] = "none"
    /\ sub["body"] = "killed"
    /\ outcome["cleanup"] = "exited(1)"

Entering == {"program_SIGHUP", "program_SIGINT", "program_SIGTERM"}

Leaving ==
    {"unprogram_SIGHUP", "unprogram_SIGINT", "unprogram_SIGTERM",
     "catch_unprogram_SIGHUP", "catch_unprogram_SIGINT", "catch_unprogram_SIGTERM",
     "unwind"}

\* C7: in protected_run the handlers of SIGHUP, SIGINT and SIGTERM are all
\* installed from the creation of the work directory to the end of the try
\* block and of its catch clause, and the three original dispositions are
\* back in place at the final check_interrupt, at the throw that ends the
\* catch clause and whenever control is back with the caller, be it with a
\* result, an error or the interruption.
C7_HandlersScoped ==
    Protected =>
        /\ pc \notin (Entering \cup Leaving
                        \cup {"check_interrupt_final", "catch_throw", "returned", "raised"})
            => AllProgrammed
        /\ pc \in {"check_interrupt_final", "catch_throw", "returned", "raised"}
            => AllOriginal
        /\ (HandedBack /\ raised = "interrupted") => hist.sigs > 0

C7_Witness ==
    /\ Protected /\ pc = "raised" /\ raised = "interrupted"
    /\ hist.sig_pc = "unprogram_SIGTERM"
    /\ AllOriginal

\* C8 as stated: when the first signal arrives after the body of a test with
\* has_cleanup was spawned and before its cleanup is, the cleanup child is
\* never spawned.
C8_Original ==
    (has_cleanup /\ hist.sig_phase = "before_cleanup") => child["cleanup"] = "unborn"

\* The positions between the checkpoint that precedes the spawn of the
\* cleanup and the spawn itself.
PastLastCheckpoint == {"fork_cleanup", "generic_spawn_followup"}

\* C8, amended: when the first signal arrives after the body of a test with
\* has_cleanup was spawned and no later than the checkpoint that precedes
\* the spawn of the cleanup, the cleanup child is never spawned; a signal
\* that arrives between that checkpoint and the spawn does not stop it.
C8_NoCleanupOnceInterrupted ==
    (has_cleanup /\ hist.sig_phase = "before_cleanup"
            /\ hist.sig_pc \notin PastLastCheckpoint) =>
        child["cleanup"] = "unborn"

C8_Witness ==
    /\ Scheduler /\ has_cleanup
    /\ hist.sig_phase = "before_cleanup"
    /\ hist.sig_pc = "generic_wait_any"
    /\ pc = "raised" /\ raised = "interrupted"
    /\ child["body"] = "reaped"
    /\ child["cleanup"] = "unborn"

\* C9 as stated: when the removal of the work directory failed and a result
\* is returned, the result is Broken 'Could not clean up test work
\* directory: <reason>' if the test's result was good and the test's result
\* unchanged otherwise, in run_test_case and in protected_run.
C9_Original ==
    (engine \in {"runner", "protected"} /\ pc = "returned"
            /\ hist.rm_failed /\ hist.hook_result # NoResult) =>
        result = cleanup_failure_result(hist.hook_result, hist.rm_error)

\* C9, amended: when the removal of the work directory failed after the
\* test's result was known, protected_run returns Broken 'Could not clean
\* up test work directory: <reason>' if that result was good and the result
\* unchanged otherwise, whereas run_test_case returns Broken 'The test
\* caused an error in the runtime system: <reason>' whatever the result was.
C9_RemovalFailure ==
    (pc = "returned" /\ hist.rm_failed /\ hist.hook_result # NoResult) =>
        /\ Protected =>
            result = IF good(hist.hook_result)
                     THEN broken("Could not clean up test work directory: " \o hist.rm_error)
                     ELSE hist.hook_result
        /\ Runner =>
            result = broken("The test caused an error in the runtime system: " \o hist.rm_error)

C9_Witness ==
    /\ Protected /\ pc = "returned"
    /\ hist.rm_failed
    /\ hist.hook_result = skipped("Foo")
    /\ result = broken("Could not clean up test work directory: rmdir failed")
    /\ workdir = "exists"

\* C10 as stated: when the fork of the body or of the cleanup failed, the run
\* ends with that error in the hands of the caller and with no result.
C10_Original ==
    (HandedBack /\ hist.error_at \in {"fork_body", "fork_cleanup"}) =>
        /\ pc = "raised"
        /\ raised = "fork failed"
        /\ ~Happened("result_returned")

\* C10, amended: when the fork of the body or of the cleanup failed,
\* protected_run and the scheduler end with that error in the hands of the
\* caller and with no result, whereas run_test_case returns Broken 'The
\* test caused an error in the runtime system: <reason>'.
C10_ForkFailure ==
    (HandedBack /\ hist.error_at \in {"fork_body", "fork_cleanup"}) =>
        /\ ~Runner =>
            /\ pc = "raised"
            /\ raised = "fork failed"
            /\ ~Happened("result_returned")
        /\ Runner =>
            /\ pc = "returned"
            /\ result = broken("The test caused an error in the runtime system: fork failed")

C10_Witness ==
    /\ Protected /\ pc = "raised"
    /\ raised = "fork failed"
    /\ hist.error_at = "fork_body"
    /\ result = broken("Test result not yet initialized")
    /\ AllOriginal

\* A call of results::adjust has returned.
Adjusted == Reconciler /\ pc = "adjusted"

\* C11: whenever results::adjust returns Passed, the results file said
\* passed, the body did not time out and it exited with code 0; a body that
\* timed out, was killed by a signal or exited with another code never
\* yields Passed.
C11_PassedMeansExitZero ==
    Adjusted =>
        /\ adjust_call.returned.type = "passed" =>
            /\ adjust_call.raw_result = passed
            /\ ~adjust_call.timed_out
            /\ adjust_call.status = fake_exited(EXIT_SUCCESS)
        /\ (adjust_call.timed_out \/ adjust_call.status # fake_exited(EXIT_SUCCESS))
            => adjust_call.returned.type # "passed"

C11_Witness ==
    /\ Adjusted
    /\ adjust_call.returned = passed
    /\ adjust_call.status = fake_exited(0)

C13_Original ==
    (Adjusted /\ adjust_call.timed_out /\ adjust_call.raw_result.type # "broken") =>
        adjust_call.returned =
            IF adjust_call.raw_result.type = "expected_timeout"
            THEN adjust_call.raw_result
            ELSE broken("Test case body timed out")

\* C14 as stated: when the body timed out, a raw result that is Broken with
\* an arbitrary reason becomes Broken 'Test case body timed out'.
C14_Original ==
    (Adjusted /\ adjust_call.timed_out /\ adjust_call.raw_result.type = "broken") =>
        adjust_call.returned = broken("Test case body timed out")

\* What the raw results that stand for a success are called in a reason.
SuccessName(t) ==
    CASE t = "passed" -> "Passed test case"
      [] t = "skipped" -> "Skipped test case"
      [] t = "expected_failure" -> "Expected failure"

C17_ExpectedExitAndSignal ==
    (Adjusted /\ ~adjust_call.timed_out) =>
        LET raw == adjust_call.raw_result
            st == adjust_call.status
            out == adjust_call.returned
        IN  /\ raw.type = "expected_exit" =>
                /\ out = raw <=>
                    (st.kind = "exited" /\ raw.exit_status \in {{}, {st.exitstatus}})
                /\ (st.kind = "exited" /\ raw.exit_status \notin {{}, {st.exitstatus}}) =>
                    \E k \in 0..MaxExitStatus :
                        /\ raw.exit_status = {k}
                        /\ out = broken("Expected clean exit with code " \o ToString(k)
                                        \o " but got code " \o ToString(st.exitstatus))
                /\ st.kind = "signaled" =>
                    out = broken("Expected clean exit but " \o format_status(st))
            /\ raw.type = "expected_signal" =>
                /\ out = raw <=>
                    (st.kind = "signaled" /\ raw.signal_no \in {{}, {st.termsig}})
                /\ (st.kind = "signaled" /\ raw.signal_no \notin {{}, {st.termsig}}) =>
                    \E k \in 1..MaxTermsig :
                        /\ raw.signal_no = {k}
                        /\ out = broken("Expected signal " \o ToString(k)
                                        \o " but got " \o ToString(st.termsig))
                /\ st.kind = "exited" =>
                    out = broken("Expected signal but " \o format_status(st))

C17_Witness ==
    /\ Adjusted /\ ~adjust_call.timed_out
    /\ adjust_call.raw_result = expected_exit({1}, "The reason")
    /\ adjust_call.status = fake_exited(2)
    /\ adjust_call.returned = broken("Expected clean exit with code 1 but got code 2")

\* C18: an ExpectedTimeout raw result whose body did not time out is never
\* kept: for every termination status results::adjust returns Broken
\* 'Expected timeout but <status>'.
C18_ExpectedTimeoutNotKept ==
    (Adjusted /\ ~adjust_call.timed_out
            /\ adjust_call.raw_result.type = "expected_timeout") =>
        /\ adjust_call.returned # adjust_call.raw_result
        /\ adjust_call.returned =
            broken("Expected timeout but " \o format_status(adjust_call.status))

C18_Witness ==
    /\ Adjusted /\ ~adjust_call.timed_out
    /\ adjust_call.raw_result = expected_timeout("The reason")
    /\ adjust_call.status = fake_exited(0)
    /\ adjust_call.returned = broken("Expected timeout but exited with code 0")

\* The scheduler has reaped the cleanup routine of the test.
CleanupReaped == Scheduler /\ Happened("cleanup_reaped")

\* C19 as stated: once the cleanup routine has run, a body result that is
\* a failure, a broken result or a skip is the result of the test,
\* unchanged, whatever the cleanup routine did.
C19_Original ==
    (CleanupReaped /\ hist.hook_result.type \in {"failed", "broken", "skipped"}) =>
        result = hist.hook_result

\* C19, amended: once the cleanup routine has run, a body result that is
\* not good, which is a failure or a broken result, is the result of the
\* test, unchanged, whatever the cleanup routine did; a skip is good and
\* is not covered.
C19_BadBodyResultKept ==
    (CleanupReaped /\ ~good(hist.hook_result)) =>
        /\ hist.hook_result.type \in {"failed", "broken"}
        /\ result = hist.hook_result

C19_Witness ==
    /\ CleanupReaped
    /\ hist.hook_result = failed("Oh no")
    /\ outcome["cleanup"] = "none"
    /\ result = failed("Oh no")

\* C20: a Skipped body result counts as good: when the cleanup routine
\* timed out the test is Broken 'Test case cleanup timed out', when it
\* terminated otherwise than by exiting with code 0 the test is Broken
\* 'Test case cleanup did not terminate successfully', and when it exited
\* with code 0 the test stays Skipped.
C20_SkippedIsGood ==
    (CleanupReaped /\ hist.hook_result.type = "skipped") =>
        result = CASE outcome["cleanup"] = "none" ->
                        broken("Test case cleanup timed out")
                   [] outcome["cleanup"] = "exited(0)" -> hist.hook_result
                   [] OTHER ->
                        broken("Test case cleanup did not terminate successfully")

C20_Witness ==
    /\ CleanupReaped
    /\ hist.hook_result = skipped("Foo")
    /\ outcome["cleanup"] \notin {"none", "exited(0)"}
    /\ result = broken("Test case cleanup did not terminate successfully")

\* C21: when the body result is Passed or an expected failure and the
\* cleanup routine ran: a cleanup that timed out gives Broken 'Test case
\* cleanup timed out', a cleanup that terminated otherwise than by exiting
\* with code 0 gives Broken 'Test case cleanup did not terminate
\* successfully', and a cleanup that exited with code 0 leaves the body
\* result unchanged.
C21_GoodBodyCleanupReported ==
    (CleanupReaped /\ hist.hook_result.type \in {"passed", "expected_failure"}) =>
        /\ outcome["cleanup"] = "none" =>
            result = broken("Test case cleanup timed out")
        /\ outcome["cleanup"] \in Statuses \ {"exited(0)"} =>
            result = broken("Test case cleanup did not terminate successfully")
        /\ outcome["cleanup"] = "exited(0)" => result = hist.hook_result
        /\ outcome["cleanup"] \in Statuses \cup {"none"}

C21_Witness ==
    /\ CleanupReaped
    /\ hist.hook_result = passed
    /\ outcome["cleanup"] = "none"
    /\ result = broken("Test case cleanup timed out")

\* A call of results::load has ended.
Loaded == Loader /\ pc = "loaded"

\* The file that was loaded starts with the text word.
StartsWith(word) ==
    /\ Len(parse_call.file.content) >= Len(word)
    /\ SubSeq(parse_call.file.content, 1, Len(word)) = word

C25_Original == Loaded => parse_call.returned.type # "thrown"

\* The number of end-of-line characters of a text.
Newlines(text) == Cardinality({ i \in 1..Len(text) : text[i] = "\n" })

\* The lines of a text joined by the literal <<NEWLINE>>.
RECURSIVE Joined(_)
Joined(text) ==
    IF text = << >> THEN << >>
    ELSE IF Head(text) = "\n"
         THEN IF Tail(text) = << >> THEN << >> ELSE NEWLINE \o Joined(Tail(text))
         ELSE << Head(text) >> \o Joined(Tail(text))

\* C26: results::parse accepts an input only if it is exactly one line
\* ended by a newline: an input without a complete line is Broken 'Empty
\* test result or no new line', and an input of more than one line is
\* Broken 'Test result contains multiple lines: ' followed by the lines
\* joined by the literal <<NEWLINE>>.
C26_ExactlyOneLine ==
    (Loaded /\ parse_call.file.exists) =>
        LET text == parse_call.file.content
            one_line == Newlines(text) = 1 /\ text[Len(text)] = "\n"
        IN  /\ Newlines(text) = 0 =>
                parse_call.returned = broken("Empty test result or no new line")
            /\ (Newlines(text) > 0 /\ ~one_line) =>
                parse_call.returned =
                    broken("Test result contains multiple lines: "
                            \o Str(Joined(text)))
            /\ parse_call.returned.type \notin {"broken", "thrown"} => one_line

C26_Witness ==
    /\ Loaded
    /\ parse_call.file.content = Chars("failed") \o << ":", "\n", "a" >>
    /\ parse_call.returned =
        broken("Test result contains multiple lines: failed:<<NEWLINE>>a")

\* C27 as stated: an input in which expected_exit or expected_signal is
\* followed by '(' without a matching '):' is rejected; it is never
\* accepted as an ExpectedExit or ExpectedSignal result.
C27_Original ==
    Loaded =>
        \A word \in { "expected_exit", "expected_signal" } :
            (/\ StartsWith(Chars(word) \o << "(" >>)
             /\ find_close(parse_call.file.content, 1) = npos)
                => parse_call.returned.type = "broken"

\* C28 as stated: the input 'broken: <reason>' followed by a newline
\* parses to a Broken raw result whose reason is exactly <reason>.
C28_Original ==
    (/\ Loaded
     /\ StartsWith(Chars("broken") \o << ":", " " >>)
     /\ Len(parse_call.file.content) >= 10
     /\ Newlines(parse_call.file.content) = 1
     /\ parse_call.file.content[Len(parse_call.file.content)] = "\n")
        => parse_call.returned =
            broken(Str(SubSeq(parse_call.file.content, 9,
                              Len(parse_call.file.content) - 1)))

\* C29 as stated: for every well-formed raw result r, parsing the line
\* that the formatter writes for r yields r.
C29_Original ==
    Loaded =>
        \A r \in RawResults :
            parse_call.file.content = format(r) \o << "\n" >>
                => parse_call.returned = r

\* The adjusted raw result has been externalized.
Externalized == Reconciler /\ pc = "externalized"

\* C22: externalizing a raw result maps ExpectedDeath, ExpectedExit,
\* ExpectedFailure, ExpectedSignal and ExpectedTimeout to ExpectedFailure
\* with the same reason, and Passed, Failed, Skipped and Broken to the
\* result of the same kind with the same reason.
C22_ExternalizeCollapsesExpected ==
    Externalized =>
        LET raw == adjust_call.returned
            final == adjust_call.externalized
        IN  /\ DOMAIN final = {"type", "reason"}
            /\ final.reason = raw.reason
            /\ final.type =
                IF raw.type \in {"expected_death", "expected_exit", "expected_failure",
                                 "expected_signal", "expected_timeout"}
                THEN "expected_failure"
                ELSE raw.type
            /\ final.type \in ResultTypes

C22_Witness ==
    /\ Externalized
    /\ adjust_call.returned = expected_exit({1}, "The reason")
    /\ adjust_call.externalized = expected_failure("The reason")

\* C23 as stated: when the body terminates, not by timeout, without having
\* created a results file, the result is Broken 'Premature exit: <status>'.
C23_Original ==
    (Reconciler /\ pc \in {"adjusted", "externalized"}
        /\ adjust_call.file = "missing" /\ ~adjust_call.timed_out) =>
        adjust_call.returned =
            broken("Premature exit: " \o format_status(adjust_call.status))

\* The test program has been started for the routine of phase p.
Executed(p) ==
    /\ child[p] # "unborn"
    /\ ~(Scheduler /\ p = "body" /\ skip_reason # "")

\* C30 as stated: when a requirement check of the test case fails, the
\* result is Skipped with the reason of the check, and neither the body
\* nor the cleanup of the test program is ever executed.
C30_Original ==
    ((Runner \/ Scheduler) /\ skip_reason # "") =>
        /\ \A p \in Phases : ~Executed(p)
        /\ pc = "returned" => result = skipped(skip_reason)

\* C40 as stated: if an interruption is caught inside the protected region
\* and the removal of the work directory then fails, the caller still
\* receives the Interrupted error, not a file-system error, and the handlers
\* of SIGHUP, SIGINT and SIGTERM are restored to their original dispositions.
C40_Original ==
    (Protected /\ pc = "raised" /\ hist.error_at = "catch_cleanup") =>
        /\ raised = "interrupted"
        /\ AllOriginal

\* C33: a body child that exits with exit_skipped yields Skipped, with the
\* contents of the skipped cookie as reason, if and only if the cookie is
\* in the control directory; when it is not, the result is what the
\* interface computes from the termination, as for any other exit code.
C33_SkippedNeedsCookie ==
    (Scheduler /\ Happened("body_reaped") /\ outcome["body"] = ExitSkipped) =>
        /\ SkippedCookie => hist.hook_result = skipped(skip_reason)
        /\ ~SkippedCookie => hist.hook_result \in AdjustedResults
        /\ hist.hook_result = skipped(skip_reason) <=> SkippedCookie

C33_Witness ==
    /\ Scheduler /\ Happened("body_reaped")
    /\ outcome["body"] = ExitSkipped
    /\ ~SkippedCookie
    /\ hist.hook_result = failed("Oh no")

\* C32 as stated: the body and the cleanup of a test case are each given
\* the same deadline, the timeout of the test case, which is 300 seconds
\* when none is declared.
C32_Original ==
    (Runner \/ Scheduler) =>
        /\ timeout \in { declared_timeout, 300 }
        /\ \A p \in Phases :
            Happened(p \o "_spawned") => hist.deadline[p] = timeout

\* C32, amended: run_test_case gives the body and the cleanup the timeout
\* of the test case each; the scheduler gives the body the timeout of the
\* test case and the cleanup cleanup_timeout, 60 seconds, whatever the
\* test case declares.
C32_Deadlines ==
    (Runner \/ Scheduler) =>
        /\ timeout \in { declared_timeout, 300 }
        /\ Happened("body_spawned") => hist.deadline["body"] = timeout
        /\ Happened("cleanup_spawned") =>
            hist.deadline["cleanup"] = IF Runner THEN timeout ELSE 60

C32_Witness ==
    /\ Runner
    /\ timeout = declared_timeout
    /\ Happened("cleanup_reaped")
    /\ hist.expired["cleanup"]
    /\ hist.deadline["cleanup"] = declared_timeout

\* A call of check_requirements has returned.
Checked == Gate /\ pc = "checked"

\* What each check of the gate says, in the order of the claim.
GateChecks ==
    << check_required_configs(call.tc, call.env),
       check_allowed_architectures(call.tc, call.env),
       check_allowed_platforms(call.tc, call.env),
       check_required_user(call.tc, call.env),
       check_required_files(call.tc, call.env),
       check_required_programs(call.tc, call.env),
       check_required_memory(call.tc, call.env) >>

\* C31: check_requirements evaluates required configuration variables,
\* allowed architectures, allowed platforms, required user, required files,
\* required programs and required memory in this order and stops at the
\* first check that fails: the reason returned is that of the earliest
\* failing check, and the gate passes only if every check passes.
C31_FirstFailingCheck ==
    Checked =>
        /\ call.returned = "" <=> \A i \in 1..7 : GateChecks[i] = ""
        /\ call.returned # "" =>
            \E i \in 1..7 :
                /\ GateChecks[i] = call.returned
                /\ \A j \in 1..(i - 1) : GateChecks[j] = ""

C31_Witness ==
    /\ Checked
    /\ call.returned = "Current architecture 'x86_64' not supported"
    /\ check_required_user(call.tc, call.env) = "Requires root privileges"
    /\ check_required_memory(call.tc, call.env) # ""

\* C34: for a test program of the plain interface the result depends only
\* on how the process terminated: exit code 0 gives Passed, exit code n
\* other than 0 gives Failed 'Returned non-success exit status n', signal s
\* gives Broken 'Received signal s', and an expired timeout gives Broken
\* 'Test case timed out'.
C34_PlainResult ==
    (Plain /\ pc = "computed") =>
        /\ call.status = fake_exited(0) => call.returned = passed
        /\ \A n \in 1..MaxExitStatus :
            call.status = fake_exited(n) =>
                call.returned =
                    failed("Returned non-success exit status " \o ToString(n))
        /\ \A sig \in 1..MaxTermsig, core \in BOOLEAN :
            call.status = fake_signaled(sig, core) =>
                call.returned = broken("Received signal " \o ToString(sig))
        /\ call.status.kind = "none" => call.returned = broken("Test case timed out")
        /\ call.returned # NoResult

C34_Witness ==
    /\ Plain /\ pc = "computed"
    /\ call.control_directory = "passed"
    /\ call.status = fake_exited(2)
    /\ call.returned = failed("Returned non-success exit status 2")

\* C35: the less-than comparison of test case identifiers is a strict total
\* order equal to the lexicographic comparison of the pair (program, name):
\* irreflexive, transitive, never a<b and b<a together, and exactly one of
\* a<b, a==b, b<a for any two identifiers.
C35_StrictTotalOrder ==
    (Ids /\ pc = "compared") =>
        LET r == call.returned IN
        /\ ~r.aa
        /\ (r.ab /\ r.bc) => r.ac
        /\ ~(r.ab /\ r.ba)
        /\ (r.ab /\ ~r.eq /\ ~r.ba) \/ (~r.ab /\ r.eq /\ ~r.ba)
                \/ (~r.ab /\ ~r.eq /\ r.ba)
        /\ r.ab = lexicographic_lt(call.a, call.b)

\* C36: the timeout of every test case accepted from a list of properties
\* is a positive duration, strictly greater than zero, and it is 300 seconds
\* when no timeout property is given.
C36_PositiveTimeout ==
    (Properties /\ pc = "constructed" /\ call.returned.type = "test_case") =>
        /\ call.returned.timeout > 0
        /\ "timeout" \notin call.raw_properties.names =>
                call.returned.timeout = 300

\* The listing has returned.
Listed == Lister /\ pc = "listed"

\* The failure text of a listing that failed or found nothing.
ListFailureText ==
    IF call.throws.at # "none" THEN call.throws.what ELSE "Empty test cases list"

C38_OneReportPerTest ==
    Table =>
        LET results == call.results IN
        /\ \A i \in 1..Len(results), j \in 1..Len(results) :
            results[i].test = results[j].test => i = j
        /\ Len(results) = Len(call.spawn_handles) =>
            \A t \in 1..Len(call.spawn_handles) :
                \E i \in 1..Len(results) : results[i].test = t
        /\ \A i \in 1..Len(results) :
            /\ results[i].test \in 1..Len(call.spawn_handles)
            /\ results[i].original_exec_handle =
                    call.spawn_handles[results[i].test]
            /\ results[i].original_exec_handle \notin
                    { call.cleanup_handles[t] : t \in DOMAIN call.cleanup_handles }
            /\ call.test_cases[results[i].test] =>
                /\ call.cleanup_handles[results[i].test] # 0
                /\ call.cleanup_handles[results[i].test] \in results[i].reaped

C38_Witness ==
    /\ Table /\ pc = "idle"
    /\ Len(call.test_cases) = 2 /\ Len(call.results) = 2
    /\ call.test_cases[1] /\ ~call.test_cases[2]
    /\ call.results[1].test = 2 /\ call.results[2].test = 1
    /\ call.results[2].original_exec_handle = call.spawn_handles[1]
    /\ call.cleanup_handles[1] \in call.results[2].reaped

\* C39: once the result handle of a test case has been destroyed, the table
\* of active executions holds no entry of that test case, neither the one of
\* its body nor the one of its cleanup; after every spawned test has been
\* waited for and its result handle destroyed, the table is empty.
C39_TableEmptied ==
    Table =>
        /\ \A i \in call.destroyed :
            \A data \in call.all_exec_data : data.test # call.results[i].test
        /\ ( /\ Len(call.spawn_handles) = Len(call.test_cases)
             /\ call.destroyed = 1..Len(call.test_cases) ) =>
                call.all_exec_data = {}

=============================================================================
